---- MODULE Spec2Model ----
(***************************************************************************)
(* Model of the avocado CLI build orchestration engine: target resolution, *)
(* dependency resolution and the subcommands that run SDK containers.      *)
(*                                                                         *)
(* Python values are modelled as tagged records:                           *)
(*   None          [type |-> "none"]                                       *)
(*   str           [type |-> "str",  value |-> "..."]                      *)
(*   bool          [type |-> "bool", value |-> TRUE]                       *)
(*   dict          [type |-> "dict", items |-> <<<<key, value>>, ...>>]    *)
(* A dict keeps its items in insertion order, as Python dicts and tomlkit  *)
(* tables do, so iteration order is part of the model.                     *)
(***************************************************************************)
EXTENDS Integers, Sequences, FiniteSets, TLC

----------------------------------------------------------------------------
(* Bounds of the model *)

MaxRuntimes == 2
MaxDeps == 2
MaxCompileDeps == 1

----------------------------------------------------------------------------
(* Python values *)

None == [type |-> "none"]
Str(s) == [type |-> "str", value |-> s]
Bool(b) == [type |-> "bool", value |-> b]
Dict(items) == [type |-> "dict", items |-> items]
EmptyDict == Dict(<<>>)

IsNone(v) == v.type = "none"
IsStr(v) == v.type = "str"
IsDict(v) == v.type = "dict"

\* bool(v): the truth value Python gives to v in `if v` / `if not v`
Truthy(v) ==
    CASE v.type = "none" -> FALSE
      [] v.type = "str" -> v.value # ""
      [] v.type = "bool" -> v.value
      [] v.type = "dict" -> Len(v.items) > 0

\* `k in d`
Has(d, k) == \E i \in 1..Len(d.items) : d.items[i][1] = k
\* d[k]
Get(d, k) == d.items[CHOOSE i \in 1..Len(d.items) : d.items[i][1] = k][2]
\* d.get(k, default)
GetOr(d, k, default) == IF Has(d, k) THEN Get(d, k) ELSE default
\* list(d.keys()), list(d.values())
Keys(d) == [i \in 1..Len(d.items) |-> d.items[i][1]]
Values(d) == [i \in 1..Len(d.items) |-> d.items[i][2]]

\* v == "s" for a Python value v and a string literal
EqStr(v, s) == IsStr(v) /\ v.value = s

SeqToSet(s) == {s[i] : i \in 1..Len(s)}

----------------------------------------------------------------------------
(* utils/target.py *)

\* resolve_target with the config tier consulted before the environment
resolve_target_config_first(cli_target, env_target, config_target) ==
    IF ~IsNone(cli_target) THEN cli_target
    ELSE IF ~IsNone(config_target) THEN config_target
    ELSE IF ~IsNone(env_target) THEN env_target
    ELSE None

\* resolve_target reads AVOCADO_TARGET from os.environ; the environment is
\* passed explicitly here.
resolve_target(cli_target, env_target, config_target) ==
    IF ~IsNone(cli_target) THEN cli_target
    ELSE IF ~IsNone(env_target) THEN env_target
    ELSE IF ~IsNone(config_target) THEN config_target
    ELSE None

\* The nested dictionaries of the runtime section, in order.
runtime_configs(runtime_section) ==
    SelectSeq(runtime_section.items, LAMBDA kv : IsDict(kv[2]))

\* get_target_from_config taking the first runtime section when there are
\* several
get_target_from_config_first(config) ==
    IF ~Truthy(config) \/ ~Has(config, "runtime") THEN None
    ELSE IF ~IsDict(Get(config, "runtime")) THEN None
    ELSE LET rc == runtime_configs(Get(config, "runtime"))
         IN IF Len(rc) >= 1
            THEN GetOr(rc[1][2], "target", None)
            ELSE None

get_target_from_config(config) ==
    IF ~Truthy(config) \/ ~Has(config, "runtime") THEN None
    ELSE IF ~IsDict(Get(config, "runtime")) THEN None
    ELSE LET rc == runtime_configs(Get(config, "runtime"))
         IN IF Len(rc) = 1
            THEN GetOr(rc[1][2], "target", None)
            ELSE None

----------------------------------------------------------------------------
(* Python string comparison and formatting *)

\* The characters of the names that occur as dependency or extension names.
Chars(s) ==
    CASE s = "bar" -> <<"b", "a", "r">>
      [] s = "curl" -> <<"c", "u", "r", "l">>
      [] s = "foo" -> <<"f", "o", "o">>
      [] s = "logging" -> <<"l", "o", "g", "g", "i", "n", "g">>
      [] s = "net" -> <<"n", "e", "t">>

\* ord(c), the code point of a character
ord(c) ==
    CASE c = "a" -> 97 [] c = "b" -> 98 [] c = "c" -> 99 [] c = "e" -> 101
      [] c = "f" -> 102 [] c = "g" -> 103 [] c = "i" -> 105 [] c = "l" -> 108
      [] c = "n" -> 110 [] c = "o" -> 111 [] c = "r" -> 114 [] c = "t" -> 116
      [] c = "u" -> 117

RECURSIVE LexLess(_, _)
\* s < t for two sequences of characters (lexicographic by code point)
LexLess(s, t) ==
    IF t = <<>> THEN FALSE
    ELSE IF s = <<>> THEN TRUE
    ELSE IF ord(Head(s)) # ord(Head(t)) THEN ord(Head(s)) < ord(Head(t))
    ELSE LexLess(Tail(s), Tail(t))

\* a < b for two Python strings
StrLess(a, b) == LexLess(Chars(a), Chars(b))

RECURSIVE ReprItems(_)
ReprItems(items) ==
    IF items = <<>> THEN ""
    ELSE "'" \o items[1][1] \o "': '" \o items[1][2].value \o "'"
         \o (IF Len(items) > 1 THEN ", " ELSE "") \o ReprItems(Tail(items))

\* str(v) as an f-string renders a value: a string is itself, a table prints
\* as a dict literal.
Format(v) == IF IsStr(v) THEN v.value ELSE "{" \o ReprItems(v.items) \o "}"

----------------------------------------------------------------------------
(* Dependency resolution: commands/{sdk,ext,runtime}/deps.py *)

RECURSIVE Flatten(_)
\* list.extend over a sequence of lists
Flatten(ss) == IF ss = <<>> THEN <<>> ELSE Head(ss) \o Flatten(Tail(ss))

\* The loop over a compile section's dependencies: plain strings and tables
\* with a version become package triples, everything else is skipped.
compile_dependencies_triples(deps) ==
    LET plain == SelectSeq(deps.items,
                     LAMBDA kv : IsStr(kv[2])
                                 \/ (IsDict(kv[2]) /\ Has(kv[2], "version")))
    IN [i \in 1..Len(plain) |->
           <<"pkg", plain[i][1],
             IF IsStr(plain[i][2]) THEN plain[i][2].value
             ELSE Get(plain[i][2], "version").value>>]

\* ext_reference_version ignoring the declared version
ext_reference_version_unset(config, ext_name) == "*"

\* version of an extension reference: ext.<name>.version or "*"
ext_reference_version(config, ext_name) ==
    IF Has(config, "ext") /\ Has(Get(config, "ext"), ext_name)
       /\ Has(Get(Get(config, "ext"), ext_name), "version")
    THEN Get(Get(Get(config, "ext"), ext_name), "version").value
    ELSE "*"

\* SdkDepsCommand._resolve_package_dependencies
SdkDeps_resolve_package_dependencies(config, package_name, package_spec) ==
    IF IsStr(package_spec) THEN << <<"pkg", package_name, package_spec.value>> >>
    ELSE IF IsDict(package_spec) THEN
        IF Has(package_spec, "version")
        THEN << <<"pkg", package_name, Get(package_spec, "version").value>> >>
        ELSE IF Has(package_spec, "ext")
        THEN LET ext_name == Get(package_spec, "ext").value
             IN << <<"ext", ext_name, ext_reference_version(config, ext_name)>> >>
        ELSE IF Has(package_spec, "compile")
        THEN LET compile_name == Get(package_spec, "compile").value
             IN IF Has(config, "sdk") /\ Has(Get(config, "sdk"), "compile")
                   /\ Has(Get(Get(config, "sdk"), "compile"), compile_name)
                THEN LET compile_config ==
                             Get(Get(Get(config, "sdk"), "compile"), compile_name)
                     IN IF Has(compile_config, "dependencies")
                        THEN compile_dependencies_triples(
                                 Get(compile_config, "dependencies"))
                        ELSE <<>>
                ELSE <<>>
        ELSE <<>>
    ELSE <<>>

\* ExtDepsCommand._resolve_package_dependencies
ExtDeps_resolve_package_dependencies(config, package_name, package_spec) ==
    IF IsStr(package_spec) THEN << <<"pkg", package_name, package_spec.value>> >>
    ELSE IF IsDict(package_spec) THEN
        IF Has(package_spec, "version")
        THEN << <<"pkg", package_name, Get(package_spec, "version").value>> >>
        ELSE IF Has(package_spec, "ext")
        THEN LET ext_name == Get(package_spec, "ext").value
             IN << <<"ext", ext_name, ext_reference_version(config, ext_name)>> >>
        ELSE IF Has(package_spec, "compile")
        THEN LET compile_name == Get(package_spec, "compile").value
             IN IF Has(config, "sdk") /\ Has(Get(config, "sdk"), "compile")
                   /\ Has(Get(Get(config, "sdk"), "compile"), compile_name)
                THEN LET compile_config ==
                             Get(Get(Get(config, "sdk"), "compile"), compile_name)
                     IN IF Has(compile_config, "dependencies")
                        THEN compile_dependencies_triples(
                                 Get(compile_config, "dependencies"))
                        ELSE <<>>
                ELSE <<>>
        ELSE <<>>
    ELSE <<>>

RECURSIVE unique_packages(_)
\* "Remove duplicates while preserving order": keep the first occurrence.
unique_packages(all_packages) ==
    IF all_packages = <<>> THEN <<>>
    ELSE LET n == Len(all_packages)
             kept == unique_packages(SubSeq(all_packages, 1, n - 1))
         IN IF all_packages[n] \in SeqToSet(kept) THEN kept
            ELSE Append(kept, all_packages[n])

\* The sort key without its first component: names only
SortKeyLess_by_name(a, b) == StrLess(a[2], b[2])

\* key=lambda x: (x[0] != "ext", x[1]), compared as Python compares tuples:
\* False < True on the first component, then the names as strings.
SortKeyLess(a, b) ==
    LET ka == (a[1] # "ext")
        kb == (b[1] # "ext")
    IN IF ka # kb THEN (~ka /\ kb)
       ELSE StrLess(a[2], b[2])

\* Position at which x goes into an already sorted list: behind every
\* element whose key is not greater, which keeps equal keys in input order.
InsertSorted(sorted, x) ==
    LET smaller == {i \in 1..Len(sorted) : ~SortKeyLess(x, sorted[i])}
        k == IF smaller = {} THEN 0
             ELSE CHOOSE i \in smaller : \A j \in smaller : j <= i
    IN SubSeq(sorted, 1, k) \o <<x>> \o SubSeq(sorted, k + 1, Len(sorted))

RECURSIVE sort_packages(_)
\* list.sort(key=...): a stable sort
sort_packages(packages) ==
    IF packages = <<>> THEN <<>>
    ELSE LET n == Len(packages)
         IN InsertSorted(sort_packages(SubSeq(packages, 1, n - 1)), packages[n])

\* SdkDepsCommand._list_packages_from_config
SdkDeps_list_packages_from_config(config) ==
    IF ~Has(config, "sdk") THEN <<>>
    ELSE LET sdk == Get(config, "sdk")
             from_deps ==
                 IF Has(sdk, "dependencies")
                 THEN LET sdk_deps == Get(sdk, "dependencies").items
                      IN Flatten([i \in 1..Len(sdk_deps) |->
                             SdkDeps_resolve_package_dependencies(
                                 config, sdk_deps[i][1], sdk_deps[i][2])])
                 ELSE <<>>
             from_compile ==
                 IF Has(sdk, "compile")
                 THEN LET sections == Get(sdk, "compile").items
                      IN Flatten([i \in 1..Len(sections) |->
                             IF IsDict(sections[i][2])
                                /\ Has(sections[i][2], "dependencies")
                             THEN compile_dependencies_triples(
                                      Get(sections[i][2], "dependencies"))
                             ELSE <<>>])
                 ELSE <<>>
         IN sort_packages(unique_packages(from_deps \o from_compile))

\* ExtDepsCommand._list_packages_from_config
ExtDeps_list_packages_from_config(config, extension) ==
    IF ~Has(config, "ext") \/ ~Has(Get(config, "ext"), extension) THEN <<>>
    ELSE LET ext_config == Get(Get(config, "ext"), extension)
             all_packages ==
                 IF Has(ext_config, "dependencies")
                 THEN LET ext_deps == Get(ext_config, "dependencies").items
                      IN Flatten([i \in 1..Len(ext_deps) |->
                             ExtDeps_resolve_package_dependencies(
                                 config, ext_deps[i][1], ext_deps[i][2])])
                 ELSE <<>>
         IN sort_packages(unique_packages(all_packages))

\* One iteration of the loop of RuntimeDepsCommand._list_runtime_dependencies
runtime_dependency(config, dep_name, dep_spec) ==
    IF IsDict(dep_spec) /\ Has(dep_spec, "ext")
    THEN LET ext_name == Get(dep_spec, "ext").value
         IN <<"ext", ext_name, ext_reference_version(config, ext_name)>>
    ELSE <<"pkg", dep_name,
           IF IsStr(dep_spec) THEN dep_spec.value
           ELSE IF IsDict(dep_spec) /\ Has(dep_spec, "version")
           THEN Get(dep_spec, "version").value
           ELSE "*">>

\* RuntimeDepsCommand._list_runtime_dependencies
list_runtime_dependencies(config, runtime_name) ==
    IF ~Has(config, "runtime") \/ ~Has(Get(config, "runtime"), runtime_name)
    THEN <<>>
    ELSE LET runtime_config == Get(Get(config, "runtime"), runtime_name)
         IN IF ~Has(runtime_config, "dependencies") THEN <<>>
            ELSE LET deps == Get(runtime_config, "dependencies").items
                 IN sort_packages([i \in 1..Len(deps) |->
                        runtime_dependency(config, deps[i][1], deps[i][2])])

----------------------------------------------------------------------------
(* Container invocations *)

\* One container invocation as the commands issue it: the image and target
\* handed to the container helper and the payload. command names the payload;
\* installroot and packages are filled for package-manager payloads.
Call(image, target, command, installroot, packages) ==
    [image |-> image, target |-> target, command |-> command,
     installroot |-> installroot, packages |-> packages]

\* The outcome of the k-th invocation of a command is decided by the
\* container, not by the CLI: outcome[k] is the boolean the helper returns.
Outcomes(n) == [1..n -> BOOLEAN]

Executed(call, ok) == [call |-> call, ok |-> ok]

\* A command's result: its return value and the invocations it issued.
Result(ret, calls) == [ret |-> ret, calls |-> calls]
Failure == Result(FALSE, <<>>)

\* The plan issued to its end whatever its calls return
RunUntilFailure_continuing(plan, outcome, k) ==
    Result(\A i \in 1..Len(plan) : outcome[k + i],
           [i \in 1..Len(plan) |-> Executed(plan[i], outcome[k + i])])

\* Invocations issued one after the other from outcome index k + 1 on,
\* stopping behind the first one that fails.
RunUntilFailure(plan, outcome, k) ==
    LET failed == {i \in 1..Len(plan) : ~outcome[k + i]}
        n == IF failed = {} THEN Len(plan)
             ELSE CHOOSE i \in failed : \A j \in failed : i <= j
    IN Result(failed = {},
              [i \in 1..n |-> Executed(plan[i], outcome[k + i])])

\* The plan cut short at its first failing call
RunAll_stopping(plan, outcome, k) == RunUntilFailure(plan, outcome, k)

\* Invocations issued one after the other regardless of failures; the
\* result is the conjunction of the outcomes.
RunAll(plan, outcome, k) ==
    Result(\A i \in 1..Len(plan) : outcome[k + i],
           [i \in 1..Len(plan) |-> Executed(plan[i], outcome[k + i])])

----------------------------------------------------------------------------
(* cli.py *)

\* main(): the target stored in args.resolved_target before dispatch
main_resolved_target(args, environ) == resolve_target(args.target, environ, None)

----------------------------------------------------------------------------
(* commands/sdk *)

sdk_image(config) == GetOr(GetOr(config, "sdk", EmptyDict), "image", None)

\* SdkRunCommand._get_target_architecture; None stands for the ValueError
\* that execute turns into a failure.
SdkRun_get_target_architecture(config, resolved_target) ==
    IF Truthy(resolved_target) THEN resolved_target
    ELSE LET target_arch == get_target_from_config(config)
         IN IF ~Truthy(target_arch) THEN None ELSE target_arch

\* SdkRunCommand.execute
SdkRun_execute(config, args, environ, outcome) ==
    IF args.interactive /\ args.detach THEN Failure
    ELSE IF ~args.interactive /\ args.command = <<>> THEN Failure
    ELSE IF ~Truthy(sdk_image(config)) THEN Failure
    ELSE LET target_arch ==
                 SdkRun_get_target_architecture(config, args.resolved_target)
         IN IF IsNone(target_arch) THEN Failure
            ELSE RunAll(<<Call(sdk_image(config), target_arch, "run", "", <<>>)>>,
                        outcome, 0)

\* SdkInstallCommand.execute: the package names built from a dependency table
sdk_install_packages(dependencies) ==
    [i \in 1..Len(dependencies.items) |->
        LET package_name == dependencies.items[i][1]
            version == dependencies.items[i][2]
        IN IF EqStr(version, "*") THEN package_name
           ELSE IF IsDict(version) THEN package_name
           ELSE package_name \o "-" \o Format(version)]

\* SdkInstallCommand._get_compile_sections_dependencies
get_compile_sections_dependencies(config) ==
    IF ~Has(config, "sdk") \/ ~Has(Get(config, "sdk"), "compile") THEN <<>>
    ELSE LET with_deps ==
                 SelectSeq(Get(Get(config, "sdk"), "compile").items,
                     LAMBDA kv : IsDict(kv[2]) /\ Has(kv[2], "dependencies"))
         IN [i \in 1..Len(with_deps) |->
                <<with_deps[i][1], Get(with_deps[i][2], "dependencies")>>]

\* SdkInstallCommand.execute
SdkInstall_execute(config, args, environ, outcome) ==
    LET container_image == sdk_image(config)
        target == resolve_target(args.resolved_target, environ,
                                 get_target_from_config(config))
        sdk_dependencies ==
            GetOr(GetOr(config, "sdk", EmptyDict), "dependencies", EmptyDict)
        compile_dependencies == get_compile_sections_dependencies(config)
        sdk_plan ==
            IF Truthy(sdk_dependencies)
            THEN <<Call(container_image, target, "dnf install", "",
                        sdk_install_packages(sdk_dependencies))>>
            ELSE <<>>
        with_packages ==
            SelectSeq(compile_dependencies, LAMBDA nd : Len(nd[2].items) > 0)
        compile_plan ==
            [i \in 1..Len(with_packages) |->
                Call(container_image, target, "dnf install",
                     "${AVOCADO_SDK_PREFIX}/target-sysroot",
                     sdk_install_packages(with_packages[i][2]))]
    IN IF ~Truthy(container_image) THEN Failure
       ELSE IF ~Truthy(target) THEN Failure
       ELSE RunUntilFailure(sdk_plan \o compile_plan, outcome, 0)

\* SdkCompileCommand._get_compile_sections_from_config: the section names
get_compile_sections_from_config(config) ==
    IF ~Has(config, "sdk") \/ ~Has(Get(config, "sdk"), "compile") THEN <<>>
    ELSE LET scripted ==
                 SelectSeq(Get(Get(config, "sdk"), "compile").items,
                     LAMBDA kv : IsDict(kv[2]) /\ Has(kv[2], "compile"))
         IN [i \in 1..Len(scripted) |-> scripted[i][1]]

\* SdkCompileCommand.execute
SdkCompile_execute(config, args, environ, outcome) ==
    LET available == get_compile_sections_from_config(config)
        requested == SeqToSet(args.sections)
        compile_sections ==
            IF args.sections # <<>>
            THEN SelectSeq(available, LAMBDA n : n \in requested)
            ELSE available
        container_image == sdk_image(config)
        target == resolve_target(args.resolved_target, environ,
                                 get_target_from_config(config))
    IN IF available = <<>> THEN Result(TRUE, <<>>)
       ELSE IF args.sections # <<>> /\ requested \ SeqToSet(available) # {}
       THEN Failure
       ELSE IF ~Truthy(container_image) THEN Failure
       ELSE IF ~Truthy(target) THEN Failure
       ELSE RunAll([i \in 1..Len(compile_sections) |->
                       Call(container_image, target, "compile", "",
                            <<compile_sections[i]>>)],
                   outcome, 0)

\* SdkDnfCommand.execute
SdkDnf_execute(config, args, environ, outcome) ==
    LET container_image == sdk_image(config)
        target == resolve_target(args.resolved_target, environ,
                                 get_target_from_config(config))
    IN IF args.command = <<>> THEN Failure
       ELSE IF ~Truthy(container_image) THEN Failure
       ELSE IF ~Truthy(target) THEN Failure
       ELSE RunAll(<<Call(container_image, target, "dnf", "", args.command)>>,
                   outcome, 0)

\* SdkCleanCommand.execute
SdkClean_execute(config, args, environ, outcome) ==
    LET container_image == sdk_image(config)
        target == resolve_target(args.resolved_target, environ,
                                 get_target_from_config(config))
    IN IF ~Truthy(container_image) THEN Failure
       ELSE IF ~Truthy(target) THEN Failure
       ELSE RunAll(<<Call(container_image, target, "rm -rf sdk", "", <<>>)>>,
                   outcome, 0)

----------------------------------------------------------------------------
(* commands/ext *)

\* ExtInstallCommand._install_single_extension: the package names built from
\* the extension's dependency table
ext_install_packages(dependencies) ==
    LET kept == SelectSeq(dependencies.items,
                    LAMBDA kv : ~(IsDict(kv[2]) /\ Has(kv[2], "compile")))
    IN [i \in 1..Len(kept) |->
           IF EqStr(kept[i][2], "*") THEN kept[i][1]
           ELSE kept[i][1] \o "-" \o Format(kept[i][2])]

\* ExtInstallCommand._install_single_extension, issuing its invocations from
\* outcome index k + 1 on
install_single_extension(config, extension, container_image, target, outcome, k) ==
    LET check == Executed(Call(container_image, target, "check sysroot",
                               extension, <<>>), outcome[k + 1])
        setup == Executed(Call(container_image, target, "create sysroot",
                               extension, <<>>), outcome[k + 2])
        before == IF check.ok THEN <<check>> ELSE <<check, setup>>
        dependencies ==
            GetOr(Get(Get(config, "ext"), extension), "dependencies", EmptyDict)
        packages == IF Truthy(dependencies)
                    THEN ext_install_packages(dependencies) ELSE <<>>
        install == Executed(Call(container_image, target, "dnf install",
                                 "${AVOCADO_EXT_SYSROOTS}/" \o extension,
                                 packages), outcome[k + Len(before) + 1])
    IN IF ~check.ok /\ ~setup.ok THEN Result(FALSE, before)
       ELSE IF packages # <<>>
       THEN Result(install.ok, Append(before, install))
       ELSE Result(TRUE, before)

RECURSIVE install_extensions(_, _, _, _, _, _)
\* ExtInstallCommand.execute: the loop over extensions_to_install
install_extensions(config, extensions, container_image, target, outcome, k) ==
    IF extensions = <<>> THEN Result(TRUE, <<>>)
    ELSE LET first == install_single_extension(config, Head(extensions),
                          container_image, target, outcome, k)
         IN IF ~first.ret THEN first
            ELSE LET rest == install_extensions(config, Tail(extensions),
                                 container_image, target, outcome,
                                 k + Len(first.calls))
                 IN Result(rest.ret, first.calls \o rest.calls)

\* ExtInstallCommand.execute; args.extension is None when no name is given
ExtInstall_execute(config, args, environ, outcome) ==
    LET extension == args.extension
        extensions_to_install ==
            IF ~IsNone(extension) THEN <<extension.value>>
            ELSE Keys(Get(config, "ext"))
        container_image == sdk_image(config)
        target == resolve_target(args.resolved_target, environ,
                                 get_target_from_config(config))
    IN IF ~Has(config, "ext")
       THEN (IF ~IsNone(extension) THEN Failure ELSE Result(TRUE, <<>>))
       ELSE IF ~IsNone(extension) /\ ~Has(Get(config, "ext"), extension.value)
       THEN Failure
       ELSE IF extensions_to_install = <<>> THEN Result(TRUE, <<>>)
       ELSE IF ~Truthy(container_image) THEN Failure
       ELSE IF ~Truthy(target) THEN Failure
       ELSE install_extensions(config, extensions_to_install, container_image,
                               target, outcome, 0)

\* ext_types of ExtBuildCommand.execute and ExtImageCommand.execute
\* ext_types falling back to sysext when neither flag is set
ext_types_default_sysext(ext_config) ==
    IF Truthy(GetOr(ext_config, "confext", Bool(FALSE)))
    THEN (IF Truthy(GetOr(ext_config, "sysext", Bool(FALSE)))
          THEN <<"sysext", "confext">> ELSE <<"confext">>)
    ELSE <<"sysext">>

ext_types(ext_config) ==
    (IF Truthy(GetOr(ext_config, "sysext", Bool(FALSE)))
     THEN <<"sysext">> ELSE <<>>)
    \o (IF Truthy(GetOr(ext_config, "confext", Bool(FALSE)))
        THEN <<"confext">> ELSE <<>>)

\* ExtBuildCommand.execute
ExtBuild_execute(config, args, environ, outcome) ==
    LET ext_config == GetOr(GetOr(config, "ext", EmptyDict),
                            args.extension.value, None)
        container_image == sdk_image(config)
        target_arch == resolve_target(args.resolved_target, environ,
                                      get_target_from_config(config))
    IN IF ~Truthy(ext_config) THEN Failure
       ELSE IF ext_types(ext_config) = <<>> THEN Failure
       ELSE IF ~Truthy(container_image) THEN Failure
       ELSE IF ~Truthy(target_arch) THEN Failure
       ELSE RunAll([i \in 1..Len(ext_types(ext_config)) |->
                       Call(container_image, target_arch,
                            "build " \o ext_types(ext_config)[i],
                            args.extension.value, <<>>)],
                   outcome, 0)

\* ExtImageCommand.execute
ExtImage_execute(config, args, environ, outcome) ==
    LET ext_config == GetOr(GetOr(config, "ext", EmptyDict),
                            args.extension.value, None)
        container_image == sdk_image(config)
        runtime_config == GetOr(config, "runtime", EmptyDict)
        target_arch == GetOr(runtime_config, "target", None)
    IN IF ~Truthy(ext_config) THEN Failure
       ELSE IF ext_types(ext_config) = <<>> THEN Failure
       ELSE IF ~Truthy(container_image) THEN Failure
       ELSE IF ~Truthy(target_arch) THEN Failure
       ELSE RunAll([i \in 1..Len(ext_types(ext_config)) |->
                       Call(container_image, target_arch,
                            "image " \o ext_types(ext_config)[i],
                            args.extension.value, <<>>)],
                   outcome, 0)

\* ExtDnfCommand._do_extension_setup followed by the dnf invocation of
\* ExtDnfCommand.execute
ExtDnf_execute(config, args, environ, outcome) ==
    LET container_image == sdk_image(config)
        target == resolve_target(args.resolved_target, environ,
                                 get_target_from_config(config))
        extension == args.extension.value
        check == Executed(Call(container_image, target, "check sysroot",
                               extension, <<>>), outcome[1])
        setup == Executed(Call(container_image, target, "create sysroot",
                               extension, <<>>), outcome[2])
        before == IF check.ok THEN <<check>> ELSE <<check, setup>>
        dnf == Executed(Call(container_image, target, "dnf",
                             "$AVOCADO_EXT_SYSROOTS/" \o extension,
                             args.command), outcome[Len(before) + 1])
    IN IF args.command = <<>> THEN Failure
       ELSE IF ~Truthy(container_image) THEN Failure
       ELSE IF ~Truthy(target) THEN Failure
       ELSE IF ~Has(config, "ext") \/ ~Has(Get(config, "ext"), extension)
       THEN Failure
       ELSE IF ~check.ok /\ ~setup.ok THEN Result(FALSE, before)
       ELSE Result(dnf.ok, Append(before, dnf))

\* ExtCleanCommand.execute
ExtClean_execute(config, args, environ, outcome) ==
    LET extension == args.extension
        resolved == resolve_target(args.resolved_target, environ,
                                   get_target_from_config(config))
        target == IF ~Truthy(resolved) THEN Str("qemux86-64") ELSE resolved
        container_image == GetOr(GetOr(config, "sdk", EmptyDict), "image",
                                 Str("avocadolinux/sdk:apollo-edge"))
        check == Executed(Call(container_image, target, "check sysroot",
                               extension.value, <<>>), outcome[1])
        remove == Executed(Call(container_image, target, "rm -rf sysroot",
                                extension.value, <<>>), outcome[2])
    IN IF ~Truthy(extension) THEN Failure
       ELSE IF ~check.ok THEN Result(TRUE, <<check>>)
       ELSE Result(remove.ok, <<check, remove>>)

----------------------------------------------------------------------------
(* The deps subcommands: what execute prints and returns *)

Listing(ret, lines) == [ret |-> ret, lines |-> lines]

\* SdkDepsCommand.execute
SdkDeps_execute(config) ==
    Listing(TRUE, SdkDeps_list_packages_from_config(config))

\* ExtDepsCommand.execute
ExtDeps_execute(config, args) ==
    IF ~Has(config, "ext") THEN Listing(FALSE, <<>>)
    ELSE IF ~Has(Get(config, "ext"), args.extension.value)
    THEN Listing(FALSE, <<>>)
    ELSE Listing(TRUE,
             ExtDeps_list_packages_from_config(config, args.extension.value))

\* RuntimeDepsCommand.execute
RuntimeDeps_execute(config, args) ==
    IF ~Has(config, "runtime") THEN Listing(FALSE, <<>>)
    ELSE IF ~Has(Get(config, "runtime"), args.runtime.value)
            \/ ~IsDict(Get(Get(config, "runtime"), args.runtime.value))
    THEN Listing(FALSE, <<>>)
    ELSE Listing(TRUE, list_runtime_dependencies(config, args.runtime.value))

----------------------------------------------------------------------------
(* The var image build script: RuntimeBuildCommand._create_var_build_script *)

\* One command of a generated shell script: what it does, for which
\* extension, reading `src` and writing `dst`
ScriptCommand(op, ext, src, dst) ==
    [op |-> op, ext |-> ext, src |-> src, dst |-> dst]

\* The shell variables the block of an extension sets (lines 220-226)
OUTPUT_EXT(ext_name) ==
    "$AVOCADO_PREFIX/output/extensions/" \o ext_name \o ".raw"
RUNTIMES_EXT(runtime_name, ext_name) ==
    "$AVOCADO_PREFIX/runtimes/" \o runtime_name
        \o "/var/lib/avocado/extensions/" \o ext_name \o ".raw"
SYSEXT(runtime_name, ext_name) ==
    "$AVOCADO_PREFIX/runtimes/" \o runtime_name
        \o "/var/lib/extensions/" \o ext_name \o ".raw"
CONFEXT(runtime_name, ext_name) ==
    "$AVOCADO_PREFIX/runtimes/" \o runtime_name
        \o "/var/lib/confexts/" \o ext_name \o ".raw"

\* The commands appended for one item of config['ext']: the hard link of the
\* built image when it exists and differs, then one symbolic link per enabled
\* type.  Items that are not tables contribute nothing.
symlink_commands_of(runtime_name, ext_name, ext_data) ==
    IF ~IsDict(ext_data) THEN <<>>
    ELSE << ScriptCommand("ln if differs", ext_name, OUTPUT_EXT(ext_name),
                          RUNTIMES_EXT(runtime_name, ext_name)) >>
         \o (IF Truthy(GetOr(ext_data, "sysext", Bool(FALSE)))
             THEN << ScriptCommand("ln -sf", ext_name,
                                   RUNTIMES_EXT(runtime_name, ext_name),
                                   SYSEXT(runtime_name, ext_name)) >>
             ELSE <<>>)
         \o (IF Truthy(GetOr(ext_data, "confext", Bool(FALSE)))
             THEN << ScriptCommand("ln -sf", ext_name,
                                   RUNTIMES_EXT(runtime_name, ext_name),
                                   CONFEXT(runtime_name, ext_name)) >>
             ELSE <<>>)

\* for ext_name, ext_data in ext_config.items(): every item of config['ext'],
\* in order
symlink_commands(config, runtime_name) ==
    LET items == GetOr(config, "ext", EmptyDict).items
    IN Flatten([i \in 1..Len(items) |->
                   symlink_commands_of(runtime_name, items[i][1], items[i][2])])

\* The script: the directories, the extension section, the btrfs image
var_build_script(config, runtime_name) ==
    << ScriptCommand("mkdir -p", "", "", "$AVOCADO_PREFIX/images"),
       ScriptCommand("mkdir -p", "", "", "$AVOCADO_PREFIX/var/lib/extensions"),
       ScriptCommand("mkdir -p", "", "", "$AVOCADO_PREFIX/var/lib/confexts"),
       ScriptCommand("mkdir -p", "", "",
                     "$AVOCADO_PREFIX/var/lib/avocado/extensions") >>
    \o symlink_commands(config, runtime_name)
    \o << ScriptCommand("mkfs.btrfs", "", "$AVOCADO_PREFIX/var",
                        "$AVOCADO_PREFIX/images/avocado-image-var.btrfs") >>

\* The f-string of the extension block reads runtime_name, which the method
\* neither receives nor assigns: the read raises NameError unless the name is
\* bound outside the method.
RuntimeNameBindings == {None, Str("default")}

\* _create_var_build_script(config) under a binding of runtime_name: the
\* script, or the exception of the first extension block
create_var_build_script(config, binding) ==
    IF IsNone(binding)
       /\ \E i \in 1..Len(GetOr(config, "ext", EmptyDict).items) :
             IsDict(GetOr(config, "ext", EmptyDict).items[i][2])
    THEN [raised |-> "NameError", script |-> <<>>]
    ELSE [raised |-> "none",
          script |-> var_build_script(config,
                         IF IsNone(binding) THEN "" ELSE binding.value)]

----------------------------------------------------------------------------
(* commands/runtime *)

\* RuntimeBuildCommand.execute
\* _build_var_image creates its script before it issues the container call:
\* an exception of _create_var_build_script leaves execute (and main, with
\* exit status 1) before the var-image step; it is a result of False here.
RuntimeBuild_execute(config, args, environ, outcome, binding) ==
    LET container_image == sdk_image(config)
        target_arch == resolve_target(args.resolved_target, environ,
                                      get_target_from_config(config))
        check == Executed(Call(container_image, target_arch,
                               "dnf list installed", "$AVOCADO_PREFIX/images",
                               <<"avocado-pkg-images">>), outcome[1])
        install == Executed(Call(container_image, target_arch, "dnf install",
                                 "$AVOCADO_PREFIX/images",
                                 <<"avocado-pkg-images">>), outcome[2])
        before == IF check.ok THEN <<check>> ELSE <<check, install>>
        images == RunUntilFailure(
                      <<Call(container_image, target_arch, "build var image",
                             "", <<>>),
                        Call(container_image, target_arch,
                             "build complete image", "", <<>>)>>,
                      outcome, Len(before))
    IN IF ~Truthy(container_image) THEN Failure
       ELSE IF ~Truthy(target_arch) THEN Failure
       ELSE IF ~check.ok /\ ~install.ok THEN Result(FALSE, before)
       ELSE IF create_var_build_script(config, binding).raised # "none"
       THEN Result(FALSE, before)
       ELSE Result(images.ret, before \o images.calls)

----------------------------------------------------------------------------
(* State *)

VARIABLES
    config,     \* the parsed avocado.toml
    environ,    \* os.environ.get('AVOCADO_TARGET')
    args,       \* the parsed command line of the invocation
    command,    \* the subcommand main() dispatched to, "none" before it ran
    result,     \* what the subcommand returned and the containers it ran
    listing,    \* the dependency triples a deps subcommand printed
    status,     \* the exit status of main(), -1 before it returned
    returned,   \* the value a directly called utility function returned
    prefix,     \* the SDK prefix /opt/_avocado/sdk of the state directory
    invocation, \* the entrypoint script of each container invocation
    runner,     \* one ContainerRunner.run_container_command call
    files,      \* the files and directories the generated scripts touch
    shell,      \* the generated script a container is running
    pipeline    \* the container calls of one command, call by call

vars == <<config, environ, args, command, result, listing, status, returned,
          prefix, invocation, runner, files, shell, pipeline>>

\* The command line: --target, the positional extension / runtime / section
\* names, the words handed to dnf or run.
Args(target, environ_target, extension, runtime, sections, words) ==
    [target |-> target,
     resolved_target |-> resolve_target(target, environ_target, None),
     extension |-> extension, runtime |-> runtime, sections |-> sections,
     command |-> words, interactive |-> FALSE, detach |-> FALSE]

NoArgs == Args(None, None, None, None, <<>>, <<>>)

----------------------------------------------------------------------------
(* Configurations *)

RuntimeNames == <<"default", "dev", "prod">>
ConfigTargets == {Str("c"), Str("d")}
ExplicitTargets == {None, Str(""), Str("a")}
EnvironTargets == {None, Str(""), Str("b")}

\* A table built from the keys of `names` that are in `chosen`, in order.
Table(names, chosen, value(_)) ==
    LET ks == SelectSeq(names, LAMBDA n : n \in chosen)
    IN Dict([i \in 1..Len(ks) |-> <<ks[i], value(ks[i])>>])

\* [runtime.<name>] tables with or without a target, and optionally a scalar
\* key `target` directly under [runtime].
RuntimeSections ==
    {Dict((IF stray THEN << <<"target", Str("x")>> >> ELSE <<>>)
          \o Table(RuntimeNames, DOMAIN t,
                   LAMBDA n : IF IsNone(t[n]) THEN EmptyDict
                              ELSE Dict(<< <<"target", t[n]>> >>)).items) :
        stray \in BOOLEAN,
        t \in UNION {[names -> ConfigTargets \cup {None}] :
                        names \in {ns \in SUBSET SeqToSet(RuntimeNames) :
                                      Cardinality(ns) <= MaxRuntimes}}}

\* [ext.net] with its two type flags
ExtSections ==
    {Dict(<< <<"net", Dict(<< <<"sysext", Bool(s)>>, <<"confext", Bool(c)>>,
                              <<"dependencies",
                                Dict(<< <<"curl", Str("7.88")>> >>)>> >>)>> >>) :
        s \in BOOLEAN, c \in BOOLEAN}

\* [sdk] with or without an image and a compile section; the SDK and the
\* compile section each declare one dependency.
SdkSections ==
    {Dict((IF image THEN << <<"image", Str("avocadolinux/sdk")>> >> ELSE <<>>)
          \o << <<"dependencies", Dict(<< <<"curl", Str("*")>> >>)>> >>
          \o (IF compile
              THEN << <<"compile",
                        Dict(<< <<"app",
                                  Dict(<< <<"compile", Str("build.sh")>>,
                                          <<"dependencies",
                                            Dict(<< <<"foo", Str("1.0")>> >>)>>
                                       >>)>> >>)>> >>
              ELSE <<>>)) :
        image \in BOOLEAN, compile \in BOOLEAN}

\* A configuration from optional sections; None leaves the section out.
Config(sdk, ext, runtime) ==
    Dict((IF IsNone(sdk) THEN <<>> ELSE << <<"sdk", sdk>> >>)
         \o (IF IsNone(ext) THEN <<>> ELSE << <<"ext", ext>> >>)
         \o (IF IsNone(runtime) THEN <<>> ELSE << <<"runtime", runtime>> >>))

----------------------------------------------------------------------------
(* The entrypoint script: SdkContainerHelper._create_entrypoint_script *)

\* Number of container invocations started against one state directory
MaxInvocations == 2

\* The commands of the one-time setup, in script order: the copies of the
\* package-manager files, the two sed rewrites of the macro file, the three
\* host installs and the two installroot bootstraps.
BootstrapSteps ==
    <<"copy", "macros", "sdk", "refresh", "toolchain", "target-dev", "rootfs">>

StepSet == SeqToSet(BootstrapSteps)

\* The toolchain install taken as guarded by "|| true" as well
IgnoresFailure_toolchain(step) == step \in {"refresh", "toolchain"}

\* "... check-update || true": the only step whose exit status is ignored
IgnoresFailure(step) == step = "refresh"

\* The script tests ${AVOCADO_SDK_PREFIX}/environment-setup and never writes
\* it: the file is payload of a package installed into the SDK prefix.  The
\* installroot bootstraps install under ${AVOCADO_SDK_SYSROOTS}, and scripts
\* are disabled (tsflags=noscripts), so only the two host installs can
\* deliver it.
SentinelProviders == {"avocado-sdk-target", "avocado-sdk-toolchain"}

Delivers(provider, step) ==
    \/ step = "sdk" /\ provider = "avocado-sdk-target"
    \/ step = "toolchain" /\ provider = "avocado-sdk-toolchain"

\* The SDK prefix before any invocation
Uninitialized(provider) ==
    [provider |-> provider, sentinel |-> FALSE, done |-> {}]

\* The sentinel test taken as always true: the setup is never skipped
sentinel_absent_always(p) == TRUE

\* if [ ! -f "${AVOCADO_SDK_PREFIX}/environment-setup" ]
sentinel_absent(p) == ~p.sentinel

\* The effect of a step that exited zero on the SDK prefix
StepEffect(p, step) ==
    [p EXCEPT !.done = @ \cup {step},
              !.sentinel = @ \/ Delivers(p.provider, step)]

\* Position of an invocation in the script: 0 before it started, 1..7 at a
\* bootstrap step, then the payload, then its exit.
Payload == Len(BootstrapSteps) + 1
Exited == Len(BootstrapSteps) + 2

NotStartedOne == [pc |-> 0, checked |-> FALSE, found |-> FALSE, ran |-> {},
                  failed |-> {}, bootstrapped |-> FALSE, payload |-> FALSE,
                  ok |-> FALSE]

NotStarted == [i \in 1..MaxInvocations |-> NotStartedOne]

\* A run_container_command call that has not been made
Idle == [pc |-> "idle"]

\* A state directory of which nothing is known to exist, and no script running
NoFiles == [path \in {} |-> ""]
NoShell == [status |-> "idle"]

\* No command is issuing container calls
NoPipeline == [pc |-> "idle"]

----------------------------------------------------------------------------
(* One invocation of the CLI: cli.py main() *)

\* main() stores the resolved target in args, dispatches to the subcommand
\* and turns its boolean into the exit status.
Dispatch(name, a, r, lines) ==
    /\ command = "none"
    /\ command' = name
    /\ args' = a
    /\ result' = Result(r.ret, r.calls)
    /\ listing' = lines
    /\ status' = IF r.ret THEN 0 ELSE 1
    /\ UNCHANGED <<config, environ, returned, prefix, invocation, runner,
                   files, shell,
                   pipeline>>

Extensions == {Str("net")}
DnfWords == {<<>>, <<"install", "curl">>}

SdkRun(targets, outcomes) ==
    \E t \in targets, outcome \in outcomes, words \in {<<>>, <<"make">>} :
        LET a == Args(t, environ, None, None, <<>>, words)
        IN Dispatch("sdk run", a, SdkRun_execute(config, a, environ, outcome), <<>>)

SdkInstall(targets, outcomes) ==
    \E t \in targets, outcome \in outcomes :
        LET a == Args(t, environ, None, None, <<>>, <<>>)
        IN Dispatch("sdk install", a,
                    SdkInstall_execute(config, a, environ, outcome), <<>>)

SdkCompile(targets, outcomes) ==
    \E t \in targets, outcome \in outcomes, sections \in {<<>>, <<"app">>} :
        LET a == Args(t, environ, None, None, sections, <<>>)
        IN Dispatch("sdk compile", a,
                    SdkCompile_execute(config, a, environ, outcome), <<>>)

SdkDnf(targets, outcomes) ==
    \E t \in targets, outcome \in outcomes, words \in DnfWords :
        LET a == Args(t, environ, None, None, <<>>, words)
        IN Dispatch("sdk dnf", a, SdkDnf_execute(config, a, environ, outcome), <<>>)

SdkClean(targets, outcomes) ==
    \E t \in targets, outcome \in outcomes :
        LET a == Args(t, environ, None, None, <<>>, <<>>)
        IN Dispatch("sdk clean", a,
                    SdkClean_execute(config, a, environ, outcome), <<>>)

ExtInstall(targets, extensions, outcomes) ==
    \E t \in targets, outcome \in outcomes, e \in extensions :
        LET a == Args(t, environ, e, None, <<>>, <<>>)
        IN Dispatch("ext install", a,
                    ExtInstall_execute(config, a, environ, outcome), <<>>)

ExtBuild(targets, outcomes) ==
    \E t \in targets, outcome \in outcomes, e \in Extensions :
        LET a == Args(t, environ, e, None, <<>>, <<>>)
        IN Dispatch("ext build", a,
                    ExtBuild_execute(config, a, environ, outcome), <<>>)

ExtImage(targets, outcomes) ==
    \E t \in targets, outcome \in outcomes, e \in Extensions :
        LET a == Args(t, environ, e, None, <<>>, <<>>)
        IN Dispatch("ext image", a,
                    ExtImage_execute(config, a, environ, outcome), <<>>)

ExtDnf(targets, outcomes) ==
    \E t \in targets, outcome \in outcomes, e \in Extensions, words \in DnfWords :
        LET a == Args(t, environ, e, None, <<>>, words)
        IN Dispatch("ext dnf", a, ExtDnf_execute(config, a, environ, outcome), <<>>)

ExtClean(targets, outcomes) ==
    \E t \in targets, outcome \in outcomes, e \in Extensions :
        LET a == Args(t, environ, e, None, <<>>, <<>>)
        IN Dispatch("ext clean", a,
                    ExtClean_execute(config, a, environ, outcome), <<>>)

RuntimeBuild(targets, outcomes) ==
    \E t \in targets, outcome \in outcomes, binding \in RuntimeNameBindings :
        LET a == Args(t, environ, None, None, <<>>, <<>>)
        IN Dispatch("runtime build", a,
                    RuntimeBuild_execute(config, a, environ, outcome, binding),
                    <<>>)

SdkDeps ==
    LET a == Args(None, environ, None, None, <<>>, <<>>)
        l == SdkDeps_execute(config)
    IN Dispatch("sdk deps", a, Result(l.ret, <<>>), l.lines)

ExtDeps(extensions) ==
    \E e \in extensions :
        LET a == Args(None, environ, e, None, <<>>, <<>>)
            l == ExtDeps_execute(config, a)
        IN Dispatch("ext deps", a, Result(l.ret, <<>>), l.lines)

RuntimeDeps(runtimes) ==
    \E r \in runtimes :
        LET a == Args(None, environ, None, r, <<>>, <<>>)
            l == RuntimeDeps_execute(config, a)
        IN Dispatch("runtime deps", a, Result(l.ret, <<>>), l.lines)

Init ==
    /\ \E sdk \in SdkSections, ext \in ExtSections \cup {None},
          runtime \in RuntimeSections \cup {None} :
           config = Config(sdk, ext, runtime)
    /\ environ \in EnvironTargets
    /\ args = NoArgs
    /\ command = "none"
    /\ result = Result(FALSE, <<>>)
    /\ listing = <<>>
    /\ status = -1
    /\ returned = None
    /\ prefix = Uninitialized("avocado-sdk-target")
    /\ invocation = NotStarted
    /\ runner = Idle
    /\ files = NoFiles
    /\ shell = NoShell
    /\ pipeline = NoPipeline

Next ==
    \/ SdkRun(ExplicitTargets, Outcomes(1))
    \/ SdkInstall(ExplicitTargets, Outcomes(2))
    \/ SdkCompile(ExplicitTargets, Outcomes(1))
    \/ SdkDnf(ExplicitTargets, Outcomes(1))
    \/ SdkClean(ExplicitTargets, Outcomes(1))
    \/ ExtInstall(ExplicitTargets, Extensions \cup {None}, Outcomes(3))
    \/ ExtBuild(ExplicitTargets, Outcomes(2))
    \/ ExtImage(ExplicitTargets, Outcomes(2))
    \/ ExtDnf(ExplicitTargets, Outcomes(3))
    \/ ExtClean(ExplicitTargets, Outcomes(2))
    \/ RuntimeBuild(ExplicitTargets, Outcomes(4))

Spec == Init /\ [][Next]_vars

TypeOK ==
    /\ command \in {"none", "sdk run", "sdk install", "sdk compile", "sdk dnf",
                    "sdk clean", "ext install", "ext build", "ext image",
                    "ext dnf", "ext clean", "runtime build", "sdk deps",
                    "ext deps", "runtime deps", "resolve_target",
                    "get_target_from_config", "create_var_build_script"}
    /\ status \in {-1, 0, 1}
    /\ (command = "none") => (status = -1)

----------------------------------------------------------------------------
(* The target utilities called directly: utils/target.py *)

\* resolve_target(cli_target, config_target) under the environment of the state
ResolveTarget ==
    \E cli \in ExplicitTargets :
        /\ command = "none"
        /\ command' = "resolve_target"
        /\ args' = [NoArgs EXCEPT !.target = cli]
        /\ returned' = resolve_target(cli, environ, get_target_from_config(config))
        /\ UNCHANGED <<config, environ, result, listing, status,
                       prefix, invocation, runner,
                   files, shell,
                   pipeline>>

\* get_target_from_config(config)
GetTargetFromConfig ==
    /\ command = "none"
    /\ command' = "get_target_from_config"
    /\ returned' = get_target_from_config(config)
    /\ UNCHANGED <<config, environ, args, result, listing, status,
                   prefix, invocation, runner,
                   files, shell,
                   pipeline>>

TargetNext == ResolveTarget \/ GetTargetFromConfig

TargetSpec == Init /\ [][TargetNext]_vars

----------------------------------------------------------------------------
(* Target resolution: properties *)

\* The target the configuration contributes in the state
ConfigTarget == get_target_from_config(config)

RuntimeTables ==
    IF Has(config, "runtime")
    THEN {i \in 1..Len(Get(config, "runtime").items) :
             IsDict(Get(config, "runtime").items[i][2])}
    ELSE {}

\* C3: the config tier yields runtime.<name>.target when there is exactly one
\* runtime section, and None when there is none or more than one, even when
\* every section declares a target.
C3_ConfigTier ==
    command = "get_target_from_config" =>
        IF Cardinality(RuntimeTables) = 1
        THEN LET only == Get(config, "runtime").items[
                             CHOOSE i \in RuntimeTables : TRUE][2]
             IN returned = (IF Has(only, "target") THEN Get(only, "target")
                            ELSE None)
        ELSE IsNone(returned)

\* C3 witness: two runtime sections that both declare a target, and the
\* config tier yielded None.
C3_Witness ==
    /\ command = "get_target_from_config"
    /\ Cardinality(RuntimeTables) = 2
    /\ \A i \in RuntimeTables :
           Has(Get(config, "runtime").items[i][2], "target")
    /\ IsNone(returned)

\* The subcommands that hand a target to a container
TargetCommands ==
    {"sdk run", "sdk install", "sdk compile", "sdk dnf", "sdk clean",
     "ext install", "ext build", "ext image", "ext dnf", "ext clean",
     "runtime build"}

\* What resolve(explicit, environment, config target) gives in the state
ExpectedTarget == resolve_target(args.target, environ, ConfigTarget)

\* C2: every subcommand that passes a target to a container uses
\* resolve(--target, AVOCADO_TARGET, single-runtime config target). Stated for
\* the invocations in which that resolution yields a non-empty target.
C2_SameTargetEverywhere ==
    (command \in TargetCommands /\ Truthy(ExpectedTarget)) =>
        \A i \in 1..Len(result.calls) :
            result.calls[i].call.target = ExpectedTarget

\* The invocation had nothing to work on: no compile section for sdk compile,
\* no extension at all for ext install without a name.
NothingToDo ==
    \/ command = "sdk compile" /\ get_compile_sections_from_config(config) = <<>>
    \/ /\ command = "ext install"
       /\ IsNone(args.extension)
       /\ (~Has(config, "ext") \/ Keys(Get(config, "ext")) = <<>>)

\* C4: when target resolution yields absent, a sysroot-touching subcommand
\* returns failure and issues no container invocation.
C4_AbsentTargetFails ==
    (command \in TargetCommands /\ IsNone(ExpectedTarget) /\ ~NothingToDo) =>
        (~result.ret /\ result.calls = <<>>)

----------------------------------------------------------------------------
(* Configurations for dependency resolution *)

DepNames == {"bar", "curl", "foo"}

\* The forms a dependency entry takes: pinned, versioned object, extension
\* reference, compile reference, and a table with none of the known keys.
DepSpecs ==
    {Str("1.0"), Str("*"),
     Dict(<< <<"version", Str("1.0")>> >>),
     Dict(<< <<"ext", Str("logging")>> >>),
     Dict(<< <<"ext", Str("net")>> >>),
     Dict(<< <<"compile", Str("app")>> >>),
     Dict(<< <<"core2_64", Str("*")>> >>)}

\* What a compile section's own dependencies are drawn from
CompileDepNames == {"curl", "foo"}
CompileDepSpecs ==
    {Str("1.0"), Str("*"),
     Dict(<< <<"version", Str("1.0")>> >>),
     Dict(<< <<"compile", Str("lib")>> >>)}

\* Tables of at most n entries with distinct keys, in every key order
Tables(names, specs, n) ==
    {Dict(items) :
        items \in UNION {{s \in [1..k -> names \X specs] :
                             \A i, j \in 1..k : s[i][1] = s[j][1] => i = j} :
                         k \in 0..n}}

DepTables == Tables(DepNames, DepSpecs, MaxDeps)
CompileDepTables == Tables(CompileDepNames, CompileDepSpecs, MaxCompileDeps)

\* A section body with an optional dependencies table behind its other keys
WithDependencies(items, deps) ==
    Dict(items \o (IF IsNone(deps) THEN <<>> ELSE << <<"dependencies", deps>> >>))

\* [sdk.compile]: absent, or `app` with or without dependencies, optionally
\* followed by `lib`, which only a compile reference inside `app` names.
CompileSections ==
    {None}
    \cup {Dict(<< <<"app", WithDependencies(
                               << <<"compile", Str("build.sh")>> >>, deps)>> >>
               \o (IF lib
                   THEN << <<"lib", WithDependencies(
                                        << <<"compile", Str("lib.sh")>> >>,
                                        Dict(<< <<"bar", Str("3.0")>> >>))>> >>
                   ELSE <<>>)) :
            deps \in CompileDepTables \cup {None}, lib \in BOOLEAN}

\* [ext]: absent; `logging` without a version; or `logging` and `net` with
\* versions. `logging` carries the dependencies under resolution.
DepsExtSections(deps) ==
    {None,
     Dict(<< <<"logging", WithDependencies(<< <<"sysext", Bool(TRUE)>> >>,
                                           deps)>> >>),
     Dict(<< <<"logging", WithDependencies(<< <<"version", Str("2.3")>>,
                                              <<"sysext", Bool(TRUE)>> >>,
                                           deps)>>,
             <<"net", Dict(<< <<"version", Str("0.9")>>,
                              <<"confext", Bool(TRUE)>> >>)>> >>)}

\* The same dependency table under [sdk], [ext.logging] and
\* [runtime.default], so that every resolver is applied to every table.
DepsConfig(deps, compile, ext) ==
    Config(WithDependencies(
               << <<"image", Str("avocadolinux/sdk")>> >>
               \o (IF IsNone(compile) THEN <<>> ELSE << <<"compile", compile>> >>),
               deps),
           ext,
           Dict(<< <<"default",
                     WithDependencies(<< <<"target", Str("c")>> >>, deps)>> >>))

DepsInit ==
    /\ \E deps \in DepTables \cup {None}, compile \in CompileSections :
           \E ext \in DepsExtSections(deps) :
               config = DepsConfig(deps, compile, ext)
    /\ environ = None
    /\ args = NoArgs
    /\ command = "none"
    /\ result = Result(FALSE, <<>>)
    /\ listing = <<>>
    /\ status = -1
    /\ returned = None
    /\ prefix = Uninitialized("avocado-sdk-target")
    /\ invocation = NotStarted
    /\ runner = Idle
    /\ files = NoFiles
    /\ shell = NoShell
    /\ pipeline = NoPipeline

\* Every container invocation succeeds
AllSucceed(n) == {[i \in 1..n |-> TRUE]}

DepsNext ==
    \/ SdkDeps
    \/ ExtDeps({Str("logging")})
    \/ RuntimeDeps({Str("default")})
    \/ ExtInstall({None}, {Str("logging")}, AllSucceed(3))
    \/ SdkInstall({None}, AllSucceed(3))

DepsSpec == DepsInit /\ [][DepsNext]_vars

----------------------------------------------------------------------------
(* Dependency resolution: properties *)

DepsCommands == {"sdk deps", "ext deps", "runtime deps"}

\* A deps subcommand ran and printed its list
Listed(name) == command = name /\ result.ret

\* The list the resolver behind the subcommand of the state computes for c
Resolved(c) ==
    CASE command = "sdk deps" -> SdkDeps_list_packages_from_config(c)
      [] command = "ext deps" ->
             ExtDeps_list_packages_from_config(c, args.extension.value)
      [] command = "runtime deps" ->
             list_runtime_dependencies(c, args.runtime.value)

\* The dependency table of the section the subcommand of the state resolves
SectionDependencies ==
    LET section ==
            CASE command \in {"sdk deps", "sdk install"} -> Get(config, "sdk")
              [] command \in {"ext deps", "ext install"} ->
                     Get(Get(config, "ext"), args.extension.value)
              [] command = "runtime deps" ->
                     Get(Get(config, "runtime"), args.runtime.value)
    IN GetOr(section, "dependencies", EmptyDict)

Reverse(s) == [i \in 1..Len(s) |-> s[Len(s) + 1 - i]]

RECURSIVE Reversed(_)
\* The same configuration with every table iterated in the opposite order
Reversed(v) ==
    IF IsDict(v)
    THEN Dict(Reverse([i \in 1..Len(v.items) |->
                          <<v.items[i][1], Reversed(v.items[i][2])>>]))
    ELSE v

\* C5: resolveAll is deterministic regardless of the iteration order of its
\* input maps, and re-applying dedup-and-sort to its output changes nothing.
C5_OrderIndependent ==
    (Listed("sdk deps") \/ Listed("ext deps")) =>
        /\ Resolved(Reversed(config)) = listing
        /\ sort_packages(unique_packages(listing)) = listing

\* C6: no (kind, name, version) triple appears more than once in the list of
\* any dependency resolver.
C6_NoDuplicateTriple ==
    (command \in DepsCommands /\ result.ret) =>
        \A i, j \in 1..Len(listing) : listing[i] = listing[j] => i = j

\* C7: extension entries precede package entries, and within each kind the
\* names are in non-decreasing lexicographic order.
C7_ListOrdered ==
    (command \in DepsCommands /\ result.ret) =>
        \A i, j \in 1..Len(listing) :
            i < j =>
                /\ ~(listing[i][1] = "pkg" /\ listing[j][1] = "ext")
                /\ (listing[i][1] = listing[j][1]
                       => ~StrLess(listing[j][2], listing[i][2]))

\* C7 witness: a package declared before an extension reference was listed
\* behind it, although its name sorts first.
C7_Witness ==
    /\ Listed("ext deps")
    /\ Len(SectionDependencies.items) = 2
    /\ SectionDependencies.items[1] = <<"bar", Str("1.0")>>
    /\ listing = << <<"ext", "logging", "2.3">>, <<"pkg", "bar", "1.0">> >>

\* The package triples of the plain (pinned or versioned-object) dependencies
\* of the compile unit `unit`, none if it is not defined
CompileUnitTriples(unit) ==
    LET units == GetOr(GetOr(config, "sdk", EmptyDict), "compile", EmptyDict)
        deps == GetOr(GetOr(units, unit, EmptyDict), "dependencies", EmptyDict)
    IN {<<"pkg", deps.items[i][1], deps.items[i][2].value>> :
            i \in {k \in 1..Len(deps.items) : IsStr(deps.items[k][2])}}
       \cup {<<"pkg", deps.items[i][1], Get(deps.items[i][2], "version").value>> :
                i \in {k \in 1..Len(deps.items) :
                          IsDict(deps.items[k][2])
                          /\ Has(deps.items[k][2], "version")}}

CompileUnits ==
    SeqToSet(Keys(GetOr(GetOr(config, "sdk", EmptyDict), "compile", EmptyDict)))

\* The entries of the section's table that have exactly the one given key
PureEntries(key) ==
    {i \in 1..Len(SectionDependencies.items) :
        /\ IsDict(SectionDependencies.items[i][2])
        /\ Keys(SectionDependencies.items[i][2]) = <<key>>}

\* C8: an entry { compile = C } resolves to the package triples of C's plain
\* dependencies and to no triple for its own key.
C8_CompileRefExpands ==
    (command \in DepsCommands /\ result.ret) =>
        \A i \in PureEntries("compile") :
            LET own == SectionDependencies.items[i][1]
                unit == Get(SectionDependencies.items[i][2], "compile").value
            IN /\ CompileUnitTriples(unit) \subseteq SeqToSet(listing)
               /\ \A t \in SeqToSet(listing) :
                      (t[1] = "pkg" /\ t[2] = own) =>
                          \E u \in CompileUnits : t \in CompileUnitTriples(u)

\* The version an extension declares, "*" if it declares none or is undefined
DeclaredVersion(ext_name) ==
    GetOr(GetOr(GetOr(config, "ext", EmptyDict), ext_name, EmptyDict),
          "version", Str("*")).value

\* C9: an entry { ext = E } resolves to the one triple (extension, E, v), v
\* being ext.E.version or "*"; the triple carries the name E, not the key.
C9_ExtRefResolves ==
    (command \in DepsCommands /\ result.ret) =>
        /\ \A i \in PureEntries("ext") :
               LET own == SectionDependencies.items[i][1]
                   E == Get(SectionDependencies.items[i][2], "ext").value
               IN /\ <<"ext", E, DeclaredVersion(E)>> \in SeqToSet(listing)
                  /\ \A t \in SeqToSet(listing) :
                         /\ (t[1] = "ext" /\ t[2] = E) => t[3] = DeclaredVersion(E)
                         /\ ~(t[1] = "ext" /\ t[2] = own)
                         /\ (t[1] = "pkg" /\ t[2] = own) =>
                                \E u \in CompileUnits : t \in CompileUnitTriples(u)
        /\ Cardinality({k \in 1..Len(listing) : listing[k][1] = "ext"})
               <= Cardinality(PureEntries("ext"))

\* C9 witness: the runtime { foo: "1.0", bar: { ext = "logging" } } with
\* ext.logging.version = "2.3" listed [(ext, logging, 2.3), (pkg, foo, 1.0)].
C9_Witness ==
    /\ Listed("runtime deps")
    /\ SectionDependencies.items =
           << <<"foo", Str("1.0")>>,
              <<"bar", Dict(<< <<"ext", Str("logging")>> >>)>> >>
    /\ DeclaredVersion("logging") = "2.3"
    /\ listing = << <<"ext", "logging", "2.3">>, <<"pkg", "foo", "1.0">> >>

\* How a resolved package triple is named to the package manager
PackageArgument(t) == IF t[3] = "*" THEN t[2] ELSE t[2] \o "-" \o t[3]

\* The package-kind triples of a resolved list as package-manager arguments
PackageArguments(triples) ==
    LET pkgs == SelectSeq(triples, LAMBDA t : t[1] = "pkg")
    IN [i \in 1..Len(pkgs) |-> PackageArgument(pkgs[i])]

\* The packages of all package-manager invocations of the command, in order
InstalledPackages ==
    Flatten([i \in 1..Len(result.calls) |->
                IF result.calls[i].call.command = "dnf install"
                THEN result.calls[i].call.packages ELSE <<>>])

\* C10: the package list an install subcommand hands to the package manager
\* for a section is exactly the package-kind triples dependency listing
\* resolves for that section, in the same order.
C10_InstallMatchesListing ==
    /\ (command = "ext install" /\ result.ret) =>
           InstalledPackages =
               PackageArguments(ExtDeps_list_packages_from_config(
                                    config, args.extension.value))
    /\ (command = "sdk install" /\ result.ret) =>
           InstalledPackages =
               PackageArguments(SdkDeps_list_packages_from_config(config))

----------------------------------------------------------------------------
(* Container invocations running the entrypoint script against one state   *)
(* directory.  Every container command starts with the script, so each     *)
(* invocation walks it from the sentinel test to the payload; invocations  *)
(* of separate CLI processes interleave freely.                            *)

\* The script started under a lock on the state directory: it waits while
\* another invocation is inside the one-time setup
StartInvocation_locked(i) ==
    /\ invocation[i].pc = 0
    /\ \A j \in 1..MaxInvocations : invocation[j].pc \notin 1..Len(BootstrapSteps)
    /\ invocation' = [invocation EXCEPT
           ![i] = [@ EXCEPT !.checked = TRUE,
                            !.found = ~sentinel_absent(prefix),
                            !.pc = IF sentinel_absent(prefix) THEN 1
                                   ELSE Payload]]
    /\ UNCHANGED <<config, environ, args, command, result, listing, status,
                   returned, prefix, runner, files, shell,
                   pipeline>>

\* bash starts the script: the test of line 211 reads the sentinel
StartInvocation(i) ==
    /\ invocation[i].pc = 0
    /\ invocation' = [invocation EXCEPT
           ![i] = [@ EXCEPT !.checked = TRUE,
                            !.found = ~sentinel_absent(prefix),
                            !.pc = IF sentinel_absent(prefix) THEN 1
                                   ELSE Payload]]
    /\ UNCHANGED <<config, environ, args, command, result, listing, status,
                   returned, prefix, runner,
                   files, shell,
                   pipeline>>

\* One command of the one-time setup runs and exits zero or non-zero; under
\* set -e a non-zero exit ends the script, except for the refresh.
BootstrapStep(i) ==
    /\ invocation[i].pc \in 1..Len(BootstrapSteps)
    /\ LET step == BootstrapSteps[invocation[i].pc]
       IN \E exit_zero \in BOOLEAN :
            /\ prefix' = IF exit_zero THEN StepEffect(prefix, step) ELSE prefix
            /\ invocation' = [invocation EXCEPT
                   ![i] = [@ EXCEPT !.ran = @ \cup {step},
                                    !.failed = IF exit_zero THEN @
                                               ELSE @ \cup {step},
                                    !.bootstrapped =
                                        exit_zero /\ step = "rootfs",
                                    !.pc = IF exit_zero \/ IgnoresFailure(step)
                                           THEN invocation[i].pc + 1
                                           ELSE Exited]]
    /\ UNCHANGED <<config, environ, args, command, result, listing, status,
                   returned, runner,
                   files, shell,
                   pipeline>>

\* cd /opt, the optional sourcing of the environment file, then the command
\* appended to the script; its exit status is the container's.
RunPayload(i) ==
    /\ invocation[i].pc = Payload
    /\ \E exit_zero \in BOOLEAN :
         invocation' = [invocation EXCEPT
             ![i] = [@ EXCEPT !.payload = TRUE, !.ok = exit_zero,
                              !.pc = Exited]]
    /\ UNCHANGED <<config, environ, args, command, result, listing, status,
                   returned, prefix, runner,
                   files, shell,
                   pipeline>>

\* The container is killed before its next command
AbortInvocation(i) ==
    /\ invocation[i].pc \in 1..Payload
    /\ invocation' = [invocation EXCEPT ![i] = [@ EXCEPT !.pc = Exited]]
    /\ UNCHANGED <<config, environ, args, command, result, listing, status,
                   returned, prefix, runner,
                   files, shell,
                   pipeline>>

BootstrapInit ==
    /\ \E sdk \in SdkSections : config = Config(sdk, None, None)
    /\ environ \in EnvironTargets
    /\ args = NoArgs
    /\ command = "none"
    /\ result = Result(FALSE, <<>>)
    /\ listing = <<>>
    /\ status = -1
    /\ returned = None
    /\ \E provider \in SentinelProviders : prefix = Uninitialized(provider)
    /\ invocation = NotStarted
    /\ runner = Idle
    /\ files = NoFiles
    /\ shell = NoShell
    /\ pipeline = NoPipeline

BootstrapNext ==
    \E i \in 1..MaxInvocations :
        \/ StartInvocation(i)
        \/ BootstrapStep(i)
        \/ RunPayload(i)
        \/ AbortInvocation(i)

BootstrapSpec == BootstrapInit /\ [][BootstrapNext]_vars

----------------------------------------------------------------------------
(* Bootstrap: properties *)

\* Some invocation ran every one-time step to its end
BootstrapCompleted ==
    \E i \in 1..MaxInvocations : invocation[i].bootstrapped

\* C11: the one-time steps are run only by an invocation that found the
\* sentinel absent, and an invocation that starts after some invocation has
\* completed the bootstrap finds the sentinel, runs no one-time step and goes
\* straight to the payload.
C11_OneTimeSetup ==
    [][\A i \in 1..MaxInvocations :
          /\ invocation'[i].ran # {} => ~invocation'[i].found
          /\ (BootstrapCompleted /\ invocation[i].pc = 0
                /\ invocation'[i].pc # 0)
             => /\ invocation'[i].found
                /\ invocation'[i].pc = Payload
                /\ invocation'[i].ran = {}]_vars

\* A second invocation ran its payload without any one-time step after the
\* first one had completed the bootstrap
C11_Witness ==
    /\ invocation[1].bootstrapped
    /\ invocation[2].found
    /\ invocation[2].payload
    /\ invocation[2].ran = {}

\* C12: whenever the sentinel is present, the base SDK install, the toolchain
\* install and both installroot bootstraps have completed.
C12_SentinelMeansDone ==
    prefix.sentinel => {"sdk", "toolchain", "target-dev", "rootfs"} \subseteq prefix.done

\* The position of a one-time step in the script
StepIndex(step) == CHOOSE k \in 1..Len(BootstrapSteps) : BootstrapSteps[k] = step

\* After a non-zero exit of one of `steps`, invocation i ran no later step and
\* no payload and, once exited, returned failure; and its payload ran only
\* after the sentinel was found or after every step ran with no non-zero
\* exit outside `tolerated`.
FailFast(i, steps, tolerated) ==
    /\ \A step \in invocation[i].failed \cap steps :
           /\ \A later \in invocation[i].ran : StepIndex(later) <= StepIndex(step)
           /\ ~invocation[i].payload
           /\ invocation[i].pc = Exited
           /\ ~invocation[i].ok
    /\ invocation[i].payload =>
           \/ invocation[i].found /\ invocation[i].ran = {}
           \/ /\ invocation[i].ran = StepSet
              /\ invocation[i].failed \subseteq tolerated

\* C21 as stated: within one invocation a non-zero exit of any bootstrap step,
\* the metadata refresh included, is followed by no later step and no payload
\* and the invocation returns failure; the payload runs only after every
\* step exited zero or was skipped by the sentinel.
C21_AnyStepFailsFast ==
    \A i \in 1..MaxInvocations : FailFast(i, StepSet, {})

\* C21: within one invocation a non-zero exit of any bootstrap step other
\* than the metadata refresh is followed by no later step and no payload and
\* the invocation returns failure; the payload runs only after the sentinel
\* skipped the steps or every step ran and none but the refresh exited
\* non-zero.
C21_FailFastExceptRefresh ==
    \A i \in 1..MaxInvocations :
        FailFast(i, StepSet \ {"refresh"}, {"refresh"})

\* C21 witness: the toolchain install exited non-zero after a refresh that
\* exited non-zero too, and the invocation ended there without its payload.
C21_Witness ==
    \E i \in 1..MaxInvocations :
        /\ invocation[i].failed = {"refresh", "toolchain"}
        /\ invocation[i].ran = {"copy", "macros", "sdk", "refresh", "toolchain"}
        /\ invocation[i].pc = Exited
        /\ ~invocation[i].payload

----------------------------------------------------------------------------
(* ContainerRunner: utils/container.py                                     *)

\* _build_container_command: the argument vector handed to subprocess.run
build_container_command(container_tool, container_image, cmd, target, container_name, detach, rm, interactive, tty) ==
    <<container_tool, "run">>
    \o (IF rm THEN <<"--rm">> ELSE <<>>)
    \o (IF Truthy(container_name) THEN <<"--name", container_name.value>>
        ELSE <<>>)
    \o (IF detach THEN <<"-d">> ELSE <<>>)
    \o (IF interactive /\ ~detach THEN <<"-i", "-t">>
        ELSE IF tty THEN <<"-t">> ELSE <<>>)
    \o <<"-v", "cwd:/opt:z">>
    \o (IF Truthy(target) THEN <<"-e", "AVOCADO_SDK_TARGET=" \o target.value>>
        ELSE <<>>)
    \o <<container_image>>
    \o cmd

\* What a call produces: a returned boolean or a raised exception
Returns(b) == [raised |-> "none", ret |-> b]
Raises(e) == [raised |-> e, ret |-> FALSE]

\* Exceptions subprocess.run raises: the tool is not on PATH, the process
\* cannot be started, Ctrl-C during the wait, non-zero exit under check=True
SpawnErrors == {"FileNotFoundError", "PermissionError"}
Exceptions == SpawnErrors \cup {"KeyboardInterrupt", "CalledProcessError"}

\* KeyboardInterrupt derives from BaseException, the others from Exception
IsException(e) == e \in Exceptions \ {"KeyboardInterrupt"}

\* The exit status of the child ignored
completed_process_ignoring_status(detach, returncode) == Returns(TRUE)

\* subprocess.run returned: line 141-146 under check=True, line 148-149
\* under check=False
completed_process(detach, returncode) ==
    IF detach
    THEN IF returncode = 0 THEN Returns(TRUE) ELSE Raises("CalledProcessError")
    ELSE Returns(returncode = 0)

\* The except clauses of _execute_container_command
execute_container_command_except(outcome) ==
    IF outcome.raised \in
           {"KeyboardInterrupt", "CalledProcessError", "FileNotFoundError"}
    THEN Returns(FALSE)
    ELSE outcome

\* run_container_command without its except clause
run_container_command_reraise(outcome) == outcome

\* The except clause of run_container_command
run_container_command_except(outcome) ==
    IF outcome.raised # "none" /\ IsException(outcome.raised)
    THEN Returns(FALSE)
    ELSE outcome

\* What run_container_command hands its caller for an outcome of
\* subprocess.run
run_container_command(outcome) ==
    run_container_command_except(execute_container_command_except(outcome))

ContainerNames == {None, Str("box")}
ExitCodes == {0, 1, 125}
ContainerId == "3f9c"

\* run_container_command is called: the command is built and subprocess.run
\* starts the container tool, or fails to.
RunnerCall ==
    /\ runner.pc = "idle"
    /\ \E detach \in BOOLEAN, rm \in BOOLEAN, interactive \in BOOLEAN,
          name \in ContainerNames, target \in {None, Str("a")},
          spawn \in {"started"} \cup SpawnErrors :
         LET cmd == build_container_command("podman", "avocadolinux/sdk",
                        <<"bash", "-c", "script">>, target, name, detach, rm,
                        interactive, TRUE)
             r == run_container_command(Raises(spawn))
         IN runner' =
              IF spawn = "started"
              THEN [pc |-> "waiting", cmd |-> cmd, detach |-> detach,
                    spawned |-> 1, child |-> "running",
                    container |-> "created", event |-> "none",
                    returncode |-> -1, ret |-> FALSE, raised |-> "none",
                    reported |-> None]
              ELSE [pc |-> IF r.raised = "none" THEN "returned" ELSE "raised",
                    cmd |-> cmd, detach |-> detach,
                    spawned |-> 1, child |-> "none",
                    container |-> "none", event |-> spawn,
                    returncode |-> -1, ret |-> r.ret, raised |-> r.raised,
                    reported |-> None]
    /\ UNCHANGED <<config, environ, args, command, result, listing, status,
                   returned, prefix, invocation,
                   files, shell,
                   pipeline>>

\* The container tool exits while subprocess.run waits for it.  With -d it
\* exits as soon as the container is started and prints its identifier;
\* without, it exits when the container does.
RunnerChildExit ==
    /\ runner.pc = "waiting"
    /\ \E returncode \in ExitCodes :
         LET r == run_container_command(
                      completed_process(runner.detach, returncode))
         IN runner' = [runner EXCEPT
                !.pc = IF r.raised = "none" THEN "returned" ELSE "raised",
                !.child = "exited",
                !.container = IF runner.detach /\ returncode = 0
                              THEN "running" ELSE "exited",
                !.event = "exit",
                !.returncode = returncode,
                !.ret = r.ret,
                !.raised = r.raised,
                !.reported = IF runner.detach /\ returncode = 0
                             THEN Str(ContainerId) ELSE None]
    /\ UNCHANGED <<config, environ, args, command, result, listing, status,
                   returned, prefix, invocation,
                   files, shell,
                   pipeline>>

\* Ctrl-C while subprocess.run waits: KeyboardInterrupt is raised in the wait.
\* The container tool may or may not be gone when the handler runs; the
\* container is left as it is.
RunnerInterrupt ==
    /\ runner.pc = "waiting"
    /\ \E child \in {"running", "exited"} :
         LET r == run_container_command(Raises("KeyboardInterrupt"))
         IN runner' = [runner EXCEPT
                !.pc = IF r.raised = "none" THEN "returned" ELSE "raised",
                !.child = child,
                !.event = "KeyboardInterrupt",
                !.ret = r.ret,
                !.raised = r.raised]
    /\ UNCHANGED <<config, environ, args, command, result, listing, status,
                   returned, prefix, invocation,
                   files, shell,
                   pipeline>>

\* A container that outlives the call (detached, or left behind by an
\* interrupt) starts and stops on its own.
ContainerProgress ==
    /\ runner.pc \in {"returned", "raised"}
    /\ runner.container \in {"created", "running"}
    /\ runner' = [runner EXCEPT
           !.container = IF @ = "created" THEN "running" ELSE "exited"]
    /\ UNCHANGED <<config, environ, args, command, result, listing, status,
                   returned, prefix, invocation,
                   files, shell,
                   pipeline>>

RunnerInit ==
    /\ \E sdk \in SdkSections : config = Config(sdk, None, None)
    /\ environ \in EnvironTargets
    /\ args = NoArgs
    /\ command = "none"
    /\ result = Result(FALSE, <<>>)
    /\ listing = <<>>
    /\ status = -1
    /\ returned = None
    /\ prefix = Uninitialized("avocado-sdk-target")
    /\ invocation = NotStarted
    /\ runner = Idle
    /\ files = NoFiles
    /\ shell = NoShell
    /\ pipeline = NoPipeline

RunnerNext ==
    \/ RunnerCall
    \/ RunnerChildExit
    \/ RunnerInterrupt
    \/ ContainerProgress

RunnerSpec == RunnerInit /\ [][RunnerNext]_vars

----------------------------------------------------------------------------
(* ContainerRunner: properties *)

RunnerDone == runner.pc \in {"returned", "raised"}

\* C13: a run without detach returns only when the child has exited, and then
\* returns success exactly when the exit status is zero; a detached run
\* returns success once the spawn call returned with status zero, reports the
\* container identifier, and nothing the container does afterwards changes
\* what the call returned.
C13_RunAndDetach ==
    [][/\ (runner'.pc = "returned" /\ runner'.event = "exit"
             /\ ~runner'.detach)
          => /\ runner'.child = "exited"
             /\ runner'.ret = (runner'.returncode = 0)
       /\ (runner'.pc = "returned" /\ runner'.detach /\ runner'.event = "exit"
             /\ runner'.returncode = 0)
          => /\ runner'.ret
             /\ runner'.reported = Str(ContainerId)
       /\ (runner'.pc = "returned" /\ runner'.ret /\ ~runner'.detach)
          => runner'.event = "exit"
       /\ RunnerDone
          => runner' = [runner EXCEPT !.container = runner'.container]]_vars

\* A detached run returned success while its container is still running
C13_Witness ==
    /\ runner.pc = "returned"
    /\ runner.detach
    /\ runner.ret
    /\ runner.reported = Str(ContainerId)
    /\ runner.container = "running"

\* C14: whatever the container invocation ends with (non-zero exit, tool not
\* found, failed detached launch, Ctrl-C during the wait, any other process
\* exception) the call returns False and raises nothing; on Ctrl-C the
\* command was spawned once and the container is left as it was.
C14_FailureIsFalse ==
    [][(runner.pc \in {"idle", "waiting"} /\ runner'.pc \notin {"idle", "waiting"})
       => /\ runner'.pc = "returned"
          /\ runner'.raised = "none"
          /\ (runner'.event # "exit" \/ runner'.returncode # 0) => ~runner'.ret
          /\ runner'.event = "KeyboardInterrupt"
             => /\ runner'.spawned = 1
                /\ runner'.container = runner.container]_vars

\* Ctrl-C during the wait of a run without detach ended in a False return
C14_Witness ==
    /\ runner.pc = "returned"
    /\ runner.event = "KeyboardInterrupt"
    /\ ~runner.detach
    /\ ~runner.ret

----------------------------------------------------------------------------
(* Failure reporting of the commands: properties *)

\* A container call whose exit status answers a question: the existence
\* tests of the sysroot directory and of the images package
IsExistenceCheck(c) ==
    c.call.command \in {"check sysroot", "dnf list installed"}

\* A container call of the command that is not an existence test failed, or
\* every container call of the command failed, as when the container tool is
\* not installed
ExecutionFailed ==
    /\ result.calls # <<>>
    /\ \/ \E i \in 1..Len(result.calls) :
             ~result.calls[i].ok /\ ~IsExistenceCheck(result.calls[i])
       \/ \A i \in 1..Len(result.calls) : ~result.calls[i].ok

\* C15: a command one of whose container invocations failed to execute
\* returns False and the process exits non-zero; the exit status is zero only
\* when the command returned True.
C15_FailureExitsNonZero ==
    (command \in TargetCommands) =>
        /\ (status = 0) = result.ret
        /\ ExecutionFailed => (~result.ret /\ status = 1)

----------------------------------------------------------------------------
(* Missing prerequisites: properties *)

ExtensionCommands ==
    {"ext install", "ext build", "ext image", "ext dnf", "ext clean"}

\* The extension named on the command line has no [ext.<name>] table
ExtensionUndefined ==
    /\ command \in ExtensionCommands
    /\ ~IsNone(args.extension)
    /\ \/ ~Has(config, "ext")
       \/ ~Has(Get(config, "ext"), args.extension.value)

\* A compile section named on the command line has no [sdk.compile.<name>]
\* table with a compile script
CompileSectionUndefined ==
    /\ command = "sdk compile"
    /\ SeqToSet(args.sections)
           \ SeqToSet(get_compile_sections_from_config(config)) # {}

\* The configuration has no sdk.image and the command has containers to run
ImageUndefined ==
    /\ command \in TargetCommands
    /\ ~NothingToDo
    /\ ~Truthy(sdk_image(config))

\* C16: a container command run without sdk.image, or naming an extension or
\* compile section the configuration does not define, returns failure and
\* issues no container invocation.
C16_MissingPrerequisiteFails ==
    (ImageUndefined \/ ExtensionUndefined \/ CompileSectionUndefined)
        => (~result.ret /\ result.calls = <<>>)

----------------------------------------------------------------------------
(* Extension build and image: properties *)

\* The [ext.<name>] table of the extension named on the command line
NamedExtension ==
    GetOr(GetOr(config, "ext", EmptyDict), args.extension.value, None)

\* The named extension is defined with sysext and confext both false
NoTypeEnabled ==
    /\ command \in {"ext build", "ext image"}
    /\ Truthy(NamedExtension)
    /\ ~Truthy(GetOr(NamedExtension, "sysext", Bool(FALSE)))
    /\ ~Truthy(GetOr(NamedExtension, "confext", Bool(FALSE)))

\* C17: ext build and ext image of an extension with sysext = false and
\* confext = false return failure without any container invocation, whatever
\* the image and the target are.
C17_NoTypeFailsFast ==
    NoTypeEnabled => (~result.ret /\ result.calls = <<>> /\ status = 1)

\* ext build failed on the type flags alone: image and target were there
C17_Witness ==
    /\ command = "ext build"
    /\ NoTypeEnabled
    /\ Truthy(sdk_image(config))
    /\ Truthy(ExpectedTarget)
    /\ status = 1

\* The types the named extension enables, sysext first
EnabledTypes ==
    SelectSeq(<<"sysext", "confext">>,
              LAMBDA t : Truthy(GetOr(NamedExtension, t, Bool(FALSE))))

\* ext build got past its checks of the configuration
ExtBuildRan ==
    /\ command = "ext build"
    /\ Truthy(NamedExtension)
    /\ EnabledTypes # <<>>
    /\ Truthy(sdk_image(config))
    /\ Truthy(ExpectedTarget)

\* C18: ext build issues one container call per enabled type, sysext before
\* confext, whether or not an earlier one failed, and returns success
\* exactly when all of them succeeded.
C18_BuildEveryType ==
    ExtBuildRan =>
        /\ Len(result.calls) = Len(EnabledTypes)
        /\ \A i \in 1..Len(EnabledTypes) :
               /\ result.calls[i].call.command = "build " \o EnabledTypes[i]
               /\ result.calls[i].call.installroot = args.extension.value
        /\ result.ret = (\A i \in 1..Len(result.calls) : result.calls[i].ok)

\* The sysext build failed and the confext build was still attempted
C18_Witness ==
    /\ ExtBuildRan
    /\ Len(result.calls) = 2
    /\ ~result.calls[1].ok
    /\ result.calls[2].ok
    /\ ~result.ret

----------------------------------------------------------------------------
(* Direct calls of _create_var_build_script *)

\* _create_var_build_script is called for the configuration of the state
CreateVarBuildScript ==
    /\ command = "none"
    /\ \E binding \in RuntimeNameBindings :
         /\ command' = "create_var_build_script"
         /\ args' = [NoArgs EXCEPT !.runtime = Str("default")]
         /\ returned' = create_var_build_script(config, binding)
    /\ UNCHANGED <<config, environ, result, listing, status, prefix,
                   invocation, runner,
                   files, shell,
                   pipeline>>

ScriptNext == CreateVarBuildScript

ScriptSpec == DepsInit /\ [][ScriptNext]_vars

----------------------------------------------------------------------------
(* The var image build script: properties *)

\* The extensions the dependencies of the runtime reference
ReferencedExtensions(runtime_name) ==
    LET triples == list_runtime_dependencies(config, runtime_name)
    IN {triples[i][2] : i \in {j \in 1..Len(triples) : triples[j][1] = "ext"}}

\* The extensions defined under [ext]
DefinedExtensions == SeqToSet(Keys(GetOr(config, "ext", EmptyDict)))

\* C19: the var image build script holds no hard-link and no symlink command
\* for an extension that is defined under ext and that the dependencies of
\* the runtime do not reference.
C19_OnlyReferencedStaged ==
    (command = "create_var_build_script" /\ returned.raised = "none") =>
        \A e \in DefinedExtensions \ ReferencedExtensions(args.runtime.value) :
            \A i \in 1..Len(returned.script) : returned.script[i].ext # e

----------------------------------------------------------------------------
(* sdk install and the target sysroot: properties *)

\* The entries of [sdk.dependencies]
SdkDependencies ==
    GetOr(GetOr(config, "sdk", EmptyDict), "dependencies", EmptyDict).items

IsCompileRef(dep_spec) == IsDict(dep_spec) /\ Has(dep_spec, "compile")

\* The package arguments of the entries of [sdk.dependencies] that are not
\* references to a compile unit
OwnPackageArguments ==
    {sdk_install_packages(Dict(<<SdkDependencies[i]>>))[1] :
        i \in {j \in 1..Len(SdkDependencies) :
                  ~IsCompileRef(SdkDependencies[j][2])}}

\* The package arguments of the dependencies of the compile units
CompilePackageArguments ==
    UNION {SeqToSet(sdk_install_packages(
                        get_compile_sections_dependencies(config)[i][2])) :
              i \in 1..Len(get_compile_sections_dependencies(config))}

\* C20: the package-manager call of sdk install without an installroot holds
\* only packages of the plain entries of sdk.dependencies, never the key of a
\* compile reference; every other call installs dependencies of compile
\* units into the target sysroot.
C20_CompileDepsInSysroot ==
    (command = "sdk install") =>
        \A i \in 1..Len(result.calls) :
            LET c == result.calls[i].call
            IN IF c.installroot = ""
               THEN SeqToSet(c.packages) \subseteq OwnPackageArguments
               ELSE /\ c.installroot = "${AVOCADO_SDK_PREFIX}/target-sysroot"
                    /\ SeqToSet(c.packages) \subseteq CompilePackageArguments


----------------------------------------------------------------------------
(* runtime build: the order of its container steps *)

\* The commands of the container invocations of the command of the state
IssuedCommands == [i \in 1..Len(result.calls) |-> result.calls[i].call.command]

\* The orders in which runtime build may have issued its steps so far
RuntimeBuildOrders ==
    {<<>>,
     <<"dnf list installed">>,
     <<"dnf list installed", "dnf install">>,
     <<"dnf list installed", "build var image">>,
     <<"dnf list installed", "dnf install", "build var image">>,
     <<"dnf list installed", "build var image", "build complete image">>,
     <<"dnf list installed", "dnf install", "build var image",
       "build complete image">>}

\* C22: runtime build issues its container steps in the order images-package
\* check, install (exactly when the check reported not installed), var-image
\* build, complete-image build; a failed install, var-image or complete-image
\* step is the last step issued and the command returns failure; success is
\* returned only behind a successful complete-image step; and no other step
\* (none that would undo a completed one) is issued.
C22_RuntimeBuildOrder ==
    command = "runtime build" =>
        /\ IssuedCommands \in RuntimeBuildOrders
        /\ Len(result.calls) >= 1 =>
               (~result.calls[1].ok <=>
                   (Len(result.calls) >= 2
                    /\ IssuedCommands[2] = "dnf install"))
        /\ \A i \in 2..Len(result.calls) :
               ~result.calls[i].ok => (i = Len(result.calls) /\ ~result.ret)
        /\ \A i \in 1..Len(result.calls) - 1 :
               (i > 1 \/ IssuedCommands[2] # "dnf install") => result.calls[i].ok
        /\ result.ret =>
               /\ Len(result.calls) >= 1
               /\ IssuedCommands[Len(result.calls)] = "build complete image"
               /\ result.calls[Len(result.calls)].ok

\* C22 witness: the check reported not installed, the install succeeded, the
\* var-image build failed, and the command returned failure without a
\* complete-image step.
C22_Witness ==
    /\ command = "runtime build"
    /\ ~result.ret
    /\ IssuedCommands = <<"dnf list installed", "dnf install", "build var image">>
    /\ ~result.calls[1].ok
    /\ result.calls[2].ok
    /\ ~result.calls[3].ok


----------------------------------------------------------------------------
(* The scripts of ext image: commands/ext/image.py *)

\* OUTPUT_DIR and OUTPUT_FILE of both scripts
OUTPUT_DIR == "/opt/_avocado/extensions"
OUTPUT_FILE(ext_type, extension_name) ==
    OUTPUT_DIR \o "/" \o ext_type \o "/" \o extension_name \o ".raw"

\* The directory both scripts test: "$AVOCADO_SDK_SYSROOTS/extensions/${EXT_NAME}"
ExtensionSysroot(extension_name) ==
    "$AVOCADO_SDK_SYSROOTS/extensions/" \o extension_name

\* The commands of both scripts in their order: mkdir -p, rm -f, the test of
\* the sysroot directory, mksquashfs on "$AVOCADO_SDK_SYSROOTS/<type>"
create_build_script(ext_type, extension_name) ==
    << ScriptCommand("mkdir -p", extension_name, "", OUTPUT_DIR \o "/" \o ext_type),
       ScriptCommand("rm -f", extension_name, "",
                     OUTPUT_FILE(ext_type, extension_name)),
       ScriptCommand("test -d", extension_name,
                     ExtensionSysroot(extension_name), ""),
       ScriptCommand("mksquashfs", extension_name,
                     "$AVOCADO_SDK_SYSROOTS/" \o ext_type,
                     OUTPUT_FILE(ext_type, extension_name)) >>

\* ExtImageCommand._create_sysext_build_script
create_sysext_build_script(extension_name) ==
    create_build_script("sysext", extension_name)

\* ExtImageCommand._create_confext_build_script
create_confext_build_script(extension_name) ==
    create_build_script("confext", extension_name)

----------------------------------------------------------------------------
(* What the commands of the scripts do to the state directory.  Paths are   *)
(* kept as the scripts spell them; two paths name the same entry when they  *)
(* are spelled the same.                                                    *)

\* How many different contents a directory tree takes
MaxTrees == 2

Absent == [kind |-> "absent"]
Directory(tree) == [kind |-> "dir", tree |-> tree]
RegularFile(content) == [kind |-> "file", content |-> content]
SymbolicLink(target) == [kind |-> "symlink", target |-> target]

\* The content of an image built from the directory `from` holding `tree`
Image(from, tree) == [from |-> from, tree |-> tree]

Lookup(fs, path) == IF path \in DOMAIN fs THEN fs[path] ELSE Absent
Write(fs, path, node) ==
    [q \in DOMAIN fs \cup {path} |-> IF q = path THEN node ELSE fs[q]]
Remove(fs, path) == [q \in DOMAIN fs \ {path} |-> fs[q]]

\* The directories in which the scripts create entries, and the parent of a path
RUNTIMES_EXT_DIR(runtime_name) ==
    "$AVOCADO_PREFIX/runtimes/" \o runtime_name \o "/var/lib/avocado/extensions"
SYSEXT_DIR(runtime_name) ==
    "$AVOCADO_PREFIX/runtimes/" \o runtime_name \o "/var/lib/extensions"
CONFEXT_DIR(runtime_name) ==
    "$AVOCADO_PREFIX/runtimes/" \o runtime_name \o "/var/lib/confexts"

RuntimeSysrootDirectories ==
    {RUNTIMES_EXT_DIR("default"), SYSEXT_DIR("default"), CONFEXT_DIR("default")}

Directories ==
    RuntimeSysrootDirectories
    \cup {OUTPUT_DIR \o "/sysext", OUTPUT_DIR \o "/confext",
          "$AVOCADO_PREFIX/images", "$AVOCADO_PREFIX/output/extensions"}

Basenames == {"net.raw", "avocado-image-var.btrfs"}

Dirname(path) ==
    IF \E d \in Directories, n \in Basenames : path = d \o "/" \o n
    THEN CHOOSE d \in Directories : \E n \in Basenames : path = d \o "/" \o n
    ELSE ""

\* An entry can be created at the path: its directory exists
CanCreate(fs, path) == Lookup(fs, Dirname(path)).kind = "dir"

\* What one command found and did: the entries at its source and destination
\* before it ran, the branch it took, its exit status, the entry at its
\* destination after it ran
Ran(cmd, fs, did, ok, after) ==
    [cmd |-> cmd, source |-> Lookup(fs, cmd.src), before |-> Lookup(fs, cmd.dst),
     did |-> did, ok |-> ok, after |-> Lookup(after, cmd.dst), fs |-> after]

\* The command succeeded with the effect `after` if `possible`, else it
\* failed and left everything as it was
Attempt(cmd, fs, did, possible, after) ==
    IF possible THEN Ran(cmd, fs, did, TRUE, after)
    ELSE Ran(cmd, fs, did, FALSE, fs)

\* if [ -f "$OUTPUT_EXT" ]; then
\*     if ! cmp -s "$OUTPUT_EXT" "$RUNTIMES_EXT" 2>/dev/null; then
\*         ln $OUTPUT_EXT $RUNTIMES_EXT
\*     fi
\* else echo "Missing image ..."; fi
\* ln without -f fails when its destination exists.
StageExtension(cmd, fs) ==
    IF Lookup(fs, cmd.src).kind # "file"
    THEN Ran(cmd, fs, "missing", TRUE, fs)
    ELSE IF Lookup(fs, cmd.dst) = Lookup(fs, cmd.src)
    THEN Ran(cmd, fs, "identical", TRUE, fs)
    ELSE Attempt(cmd, fs, "ln",
                 Lookup(fs, cmd.dst).kind = "absent" /\ CanCreate(fs, cmd.dst),
                 Write(fs, cmd.dst, Lookup(fs, cmd.src)))

\* One command of a script run against the state directory
Exec(cmd, fs) ==
    CASE cmd.op = "mkdir -p" ->
             Attempt(cmd, fs, "mkdir", Lookup(fs, cmd.dst).kind \in {"absent", "dir"},
                     IF Lookup(fs, cmd.dst).kind = "dir" THEN fs
                     ELSE Write(fs, cmd.dst, Directory(0)))
      [] cmd.op = "rm -f" ->
             Attempt(cmd, fs, "rm", Lookup(fs, cmd.dst).kind # "dir",
                     Remove(fs, cmd.dst))
      [] cmd.op = "test -d" ->
             Attempt(cmd, fs, "test", Lookup(fs, cmd.src).kind = "dir", fs)
      [] cmd.op = "mksquashfs" ->
             Attempt(cmd, fs, "mksquashfs",
                     Lookup(fs, cmd.src).kind = "dir" /\ CanCreate(fs, cmd.dst),
                     Write(fs, cmd.dst,
                           RegularFile(Image(cmd.src, Lookup(fs, cmd.src).tree))))
      [] cmd.op = "ln if differs" -> StageExtension(cmd, fs)
      [] cmd.op = "ln -sf" ->
             Attempt(cmd, fs, "ln -sf", CanCreate(fs, cmd.dst),
                     Write(fs, cmd.dst, SymbolicLink(cmd.src)))
      [] cmd.op = "mkfs.btrfs" ->
             Attempt(cmd, fs, "mkfs.btrfs", CanCreate(fs, cmd.dst),
                     Write(fs, cmd.dst, RegularFile(Image(cmd.src, 0))))

----------------------------------------------------------------------------
(* Scripts running in a container, one at a time, and what else changes the *)
(* state directory between them                                             *)

\* bash -c <script> starts in the container
StartScript(name, script) ==
    /\ shell.status = "idle"
    /\ shell' = [status |-> "running", name |-> name, script |-> script,
                 pc |-> 1, before |-> files, trace |-> <<>>]
    /\ UNCHANGED <<config, environ, args, command, result, listing, status,
                   returned, prefix, invocation, runner, files,
                   pipeline>>

\* ExtImageCommand.execute: one script per enabled type of the extension
ExtImageScript ==
    \E extension_name \in {"net"}, ext_type \in {"sysext", "confext"} :
        /\ Has(GetOr(config, "ext", EmptyDict), extension_name)
        /\ ext_type \in SeqToSet(ext_types(Get(Get(config, "ext"), extension_name)))
        /\ StartScript("image " \o ext_type,
                       IF ext_type = "sysext"
                       THEN create_sysext_build_script(extension_name)
                       ELSE create_confext_build_script(extension_name))

\* RuntimeBuildCommand._build_var_image: the script, when creating it raised
\* nothing
VarBuildScript ==
    \E binding \in RuntimeNameBindings :
        /\ create_var_build_script(config, binding).raised = "none"
        /\ StartScript("build var image",
                       create_var_build_script(config, binding).script)

\* The next command of the script; under set -e its failure ends the script
\* with status 1, and the end of the script is status 0.
ScriptStep ==
    /\ shell.status = "running"
    /\ LET ran == Exec(shell.script[shell.pc], files)
       IN /\ files' = ran.fs
          /\ shell' = [shell EXCEPT
                 !.trace = Append(@, [k \in DOMAIN ran \ {"fs"} |-> ran[k]]),
                 !.pc = @ + 1,
                 !.status = IF ~ran.ok THEN "exit 1"
                            ELSE IF shell.pc = Len(shell.script) THEN "exit 0"
                            ELSE "running"]
    /\ UNCHANGED <<config, environ, args, command, result, listing, status,
                   returned, prefix, invocation, runner,
                   pipeline>>

\* The container is gone
ContainerExit ==
    /\ shell.status \in {"exit 0", "exit 1"}
    /\ shell' = NoShell
    /\ UNCHANGED <<config, environ, args, command, result, listing, status,
                   returned, prefix, invocation, runner, files,
                   pipeline>>

\* The directories the scripts read and never create
SysrootDirectories ==
    {ExtensionSysroot("net"), "$AVOCADO_SDK_SYSROOTS/sysext",
     "$AVOCADO_SDK_SYSROOTS/confext"}

\* Something outside the scripts changes the state directory
Outside(fs) ==
    /\ shell.status = "idle"
    /\ files' = fs
    /\ UNCHANGED <<config, environ, args, command, result, listing, status,
                   returned, prefix, invocation, runner, shell,
                   pipeline>>

\* A sysroot directory is created or its content changes
PopulateDirectory ==
    \E d \in SysrootDirectories, tree \in 1..MaxTrees :
        Outside(Write(files, d, Directory(tree)))

\* rm -rf of a sysroot directory
RemoveDirectory ==
    \E d \in SysrootDirectories :
        /\ d \in DOMAIN files
        /\ Outside(Remove(files, d))

\* The directories of the runtime sysroot under which extensions are staged
ProvideRuntimeSysroot ==
    /\ \E d \in RuntimeSysrootDirectories : d \notin DOMAIN files
    /\ Outside([q \in DOMAIN files \cup RuntimeSysrootDirectories |->
                   IF q \in RuntimeSysrootDirectories THEN Directory(0)
                   ELSE files[q]])

\* A built extension image appears at the path the var build script reads
PlaceArtifact ==
    \E ext_name \in {"net"}, tree \in 1..MaxTrees :
        Outside(Write(files, OUTPUT_EXT(ext_name),
                      RegularFile(Image(ExtensionSysroot(ext_name), tree))))

FilesInit ==
    /\ \E ext \in ExtSections :
           config = Config(Dict(<< <<"image", Str("avocadolinux/sdk")>> >>),
                           ext, None)
    /\ environ = None
    /\ args = NoArgs
    /\ command = "none"
    /\ result = Result(FALSE, <<>>)
    /\ listing = <<>>
    /\ status = -1
    /\ returned = None
    /\ prefix = Uninitialized("avocado-sdk-target")
    /\ invocation = NotStarted
    /\ runner = Idle
    /\ files = NoFiles
    /\ shell = NoShell
    /\ pipeline = NoPipeline

FilesNext ==
    \/ ExtImageScript
    \/ VarBuildScript
    \/ ScriptStep
    \/ ContainerExit
    \/ PopulateDirectory
    \/ RemoveDirectory
    \/ ProvideRuntimeSysroot
    \/ PlaceArtifact

FilesSpec == FilesInit /\ [][FilesNext]_vars

FilesTypeOK == shell.status \in {"idle", "running", "exit 0", "exit 1"}


----------------------------------------------------------------------------
(* The extension pipeline on the state directory: properties *)

ImageScripts == {"image sysext", "image confext"}

\* The commands of the running or finished script that have run
Trace == IF shell.status = "idle" THEN <<>> ELSE shell.trace

\* The type directory name of an image script
TypeOf(name) == IF name = "image sysext" THEN "sysext" ELSE "confext"

\* C23: the squashfs builder of ext image reads the extension's own sysroot
\* directory, the directory the script verified, and writes
\* <out>/<type>/<name>.raw.
C23_ImageFromVerifiedSysroot ==
    (shell.status # "idle" /\ shell.name \in ImageScripts) =>
        \A i \in 1..Len(Trace) :
            Trace[i].cmd.op = "mksquashfs" =>
                /\ Trace[i].cmd.src = ExtensionSysroot(Trace[i].cmd.ext)
                /\ \E j \in 1..(i - 1) :
                       /\ Trace[j].cmd.op = "test -d"
                       /\ Trace[j].cmd.src = Trace[i].cmd.src
                /\ Trace[i].cmd.dst =
                       OUTPUT_DIR \o "/" \o TypeOf(shell.name) \o "/"
                           \o Trace[i].cmd.ext \o ".raw"

\* C24: when the sysroot of the extension is missing, the ext image script
\* fails at its test and the <name>.raw built before is as it was when the
\* script started.
C24_MissingSysrootKeepsImage ==
    (/\ shell.status = "exit 1"
     /\ shell.name \in ImageScripts
     /\ Trace[Len(Trace)].cmd.op = "test -d") =>
        LET output == OUTPUT_FILE(TypeOf(shell.name), Trace[Len(Trace)].cmd.ext)
        IN Lookup(files, output) = Lookup(shell.before, output)

\* C25: on every run of the var build script, the artifact of an extension
\* is hard-linked exactly when the staged copy is missing or differs, the
\* staged content equals the artifact's afterwards, and nothing is written
\* when they were identical.  Stated for the runs that find the directory of
\* the staged copy in place.
C25_StagedEqualsArtifact ==
    (shell.status # "idle" /\ shell.name = "build var image") =>
        \A i \in 1..Len(Trace) :
            (/\ Trace[i].cmd.op = "ln if differs"
             /\ Trace[i].source.kind = "file"
             /\ CanCreate(files, Trace[i].cmd.dst)) =>
                /\ Trace[i].did = "ln" <=> Trace[i].before # Trace[i].source
                /\ Trace[i].after = Trace[i].source
                /\ Trace[i].before = Trace[i].source =>
                       Trace[i].after = Trace[i].before

\* C29: the var build script does not take its "Missing image" branch for an
\* extension whose image ext image has built.
C29_BuiltImageIsFound ==
    (shell.status # "idle" /\ shell.name = "build var image") =>
        \A i \in 1..Len(Trace) :
            (Trace[i].cmd.op = "ln if differs" /\ Trace[i].did = "missing") =>
                \A ext_type \in {"sysext", "confext"} :
                    Lookup(shell.before,
                           OUTPUT_FILE(ext_type, Trace[i].cmd.ext)).kind # "file"


----------------------------------------------------------------------------
(* init: commands/init.py *)

\* target = args.resolved_target or "qemux86-64"
init_target(resolved_target) ==
    IF Truthy(resolved_target) THEN resolved_target.value ELSE "qemux86-64"

\* os.path.join(directory, "avocado.toml")
toml_path(directory) == directory \o "/avocado.toml"

\* The configuration template written for a target
config_content(target) ==
    "[runtime.default] target = " \o target
        \o " [runtime.default.dependencies] nativesdk-avocado-images = *"
        \o " [sdk] image = avocadolinux/sdk:apollo-edge"

\* The entry a path leads to: a symbolic link is followed
Resolve(fs, path) ==
    IF Lookup(fs, path).kind = "symlink" THEN Lookup(fs, path).target ELSE path

\* The existence test taken as always false
path_exists_never(fs, path) == FALSE

\* os.path.exists(path): false for a missing entry and for a dangling link
path_exists(fs, path) == Lookup(fs, Resolve(fs, path)).kind # "absent"

\* What open(toml_path, 'w') followed by f.write does: both succeed, open
\* raises and nothing is created, or write raises behind an open that has
\* created or truncated the file.
WriteOutcomes == {"written", "open raised", "write raised"}

\* InitCommand.execute on the directory tree fs: the return value and the
\* tree it leaves.  `makedirs` says whether os.makedirs succeeds.
Init_execute(directory, resolved_target, fs, makedirs, written) ==
    LET made == IF path_exists(fs, directory) THEN fs
                ELSE Write(fs, directory, Directory(0))
        path == toml_path(directory)
        content == config_content(init_target(resolved_target))
    IN IF ~path_exists(fs, directory) /\ ~makedirs
       THEN [ret |-> FALSE, fs |-> fs]
       ELSE IF path_exists(made, path)
       THEN [ret |-> FALSE, fs |-> made]
       ELSE CASE written = "written" ->
                     [ret |-> TRUE,
                      fs |-> Write(made, Resolve(made, path), RegularFile(content))]
              [] written = "open raised" -> [ret |-> FALSE, fs |-> made]
              [] written = "write raised" ->
                     [ret |-> FALSE,
                      fs |-> Write(made, Resolve(made, path), RegularFile(""))]

InitDirectories == {".", "proj"}

\* What may sit at <directory>/avocado.toml before init ever ran
ForeignEntries ==
    {Absent, RegularFile("[sdk] image = other"), Directory(0),
     SymbolicLink("elsewhere.toml")}

\* avocado init [directory], any number of times on the same tree
RunInit ==
    \E directory \in InitDirectories, t \in ExplicitTargets,
       makedirs \in BOOLEAN, written \in WriteOutcomes :
        LET a == [directory |-> directory]
                     @@ Args(t, environ, None, None, <<>>, <<>>)
            r == Init_execute(a.directory, a.resolved_target, files,
                              makedirs, written)
        IN /\ command' = "init"
           /\ args' = a
           /\ result' = Result(r.ret, <<>>)
           /\ status' = IF r.ret THEN 0 ELSE 1
           /\ files' = r.fs
           /\ UNCHANGED <<config, environ, listing, returned, prefix,
                          invocation, runner, shell,
                   pipeline>>

\* The working directory exists; proj may not; either may hold an entry
\* named avocado.toml already.
InitInit ==
    /\ config = Config(None, None, None)
    /\ environ \in EnvironTargets
    /\ args = NoArgs
    /\ command = "none"
    /\ result = Result(FALSE, <<>>)
    /\ listing = <<>>
    /\ status = -1
    /\ returned = None
    /\ prefix = Uninitialized("avocado-sdk-target")
    /\ invocation = NotStarted
    /\ runner = Idle
    /\ shell = NoShell
    /\ pipeline = NoPipeline
    /\ \E here \in ForeignEntries, proj \in BOOLEAN, there \in ForeignEntries :
           /\ ~proj => there = Absent
           /\ files = Write(Write(Write(NoFiles, ".", Directory(0)),
                                  toml_path("."), here),
                            IF proj THEN "proj" ELSE ".",
                            Directory(0))
                      @@ (IF there = Absent THEN NoFiles
                          ELSE Write(NoFiles, toml_path("proj"), there))

InitNext == RunInit

InitSpec == InitInit /\ [][InitNext]_vars

\* avocado.toml is in the directory: a file or directory of that name, or a
\* link of that name to something that is there
TomlPresent(directory) ==
    LET entry == Lookup(files, toml_path(directory))
    IN \/ entry.kind \in {"file", "dir"}
       \/ entry.kind = "symlink" /\ Lookup(files, entry.target).kind # "absent"

\* C30: an init call that finds avocado.toml in the directory returns failure
\* and leaves every file as it was; a successful init is therefore always the
\* one that created the file, and the file stays the one it wrote.
C30_InitKeepsExisting ==
    [][(command' = "init" /\ TomlPresent(args'.directory)) =>
           (~result'.ret /\ status' = 1 /\ files' = files)]_vars

\* C30 witness: avocado.toml holds what an init for target "a" wrote, and a
\* later init for another target on the same directory returned failure.
C30_Witness ==
    /\ command = "init"
    /\ ~result.ret
    /\ init_target(args.resolved_target) # "a"
    /\ Lookup(files, toml_path(args.directory)) = RegularFile(config_content("a"))


----------------------------------------------------------------------------
(* Concurrent invocations against one state directory *)

\* Invocation i is inside the one-time setup
InBootstrap(i) == invocation[i].pc \in 1..Len(BootstrapSteps)

\* C27: nothing coordinates concurrent invocations: an invocation that has not
\* started can start whatever the others are doing, and while the sentinel is
\* absent it passes the sentinel test into the one-time setup, also when
\* another invocation is in the middle of that setup.
C27_NoCoordination ==
    \A i \in 1..MaxInvocations :
        invocation[i].pc = 0 =>
            /\ ENABLED StartInvocation(i)
            /\ ~prefix.sentinel =>
                   ENABLED (StartInvocation(i) /\ invocation'[i].pc = 1)

\* C27 witness: two invocations found the sentinel absent, neither has
\* finished its setup, and both have run the same one-time step.
C27_Witness ==
    /\ InBootstrap(1) /\ InBootstrap(2)
    /\ ~invocation[1].found /\ ~invocation[2].found
    /\ invocation[1].ran \cap invocation[2].ran # {}


----------------------------------------------------------------------------
(* A command issuing its container calls one by one: the commands that ask  *)
(* a read-only question first and create what is missing next               *)

\* The container calls of a command in the order of its code: the existence
\* check, the step taken when the check returned False, the steps behind it
command_plan(name) ==
    CASE name = "runtime build" ->
             <<"dnf list installed", "dnf install", "build var image",
               "build complete image">>
      [] name = "ext install" ->
             <<"check sysroot", "create sysroot", "dnf install">>
      [] name = "ext dnf" -> <<"check sysroot", "create sysroot", "dnf">>

\* SdkContainer.run_in_container hands its caller the boolean of the
\* container runner
run_in_container(ret) == ret

\* What a returned call leads to.  The check decides between the creation
\* step and the step behind it; any other call that returned False ends the
\* command with False, and the last one that returned True ends it with True.
after_call(plan, next, ret) ==
    IF next = 1 THEN [pc |-> "ready", next |-> IF ret THEN 3 ELSE 2, ret |-> FALSE]
    ELSE IF ~ret THEN [pc |-> "done", next |-> next, ret |-> FALSE]
    ELSE IF next = Len(plan) THEN [pc |-> "done", next |-> next, ret |-> TRUE]
    ELSE [pc |-> "ready", next |-> next + 1, ret |-> FALSE]

\* execute is entered with an image and a target in hand
CommandStart ==
    \E name \in {"runtime build", "ext install", "ext dnf"} :
        /\ pipeline.pc = "idle"
        /\ pipeline' = [pc |-> "ready", name |-> name, next |-> 1,
                        issued |-> <<>>, started |-> 0, returned |-> 0,
                        ret |-> FALSE]
        /\ UNCHANGED <<config, environ, args, command, result, listing, status,
                       returned, prefix, invocation, runner, files, shell>>

\* The next call issued although the one before has not returned
IssueCall_eager ==
    /\ pipeline.pc \in {"ready", "calling"}
    /\ pipeline' = [pipeline EXCEPT !.pc = "calling", !.started = @ + 1]
    /\ UNCHANGED <<config, environ, args, command, result, listing, status,
                   returned, prefix, invocation, runner, files, shell>>

\* container_helper.run_in_container(...) is called for the next step.  The
\* var build script is created first, and an exception there ends the command.
IssueCall ==
    /\ pipeline.pc = "ready"
    /\ runner.pc = "idle"
    /\ \E binding \in RuntimeNameBindings :
         IF /\ command_plan(pipeline.name)[pipeline.next] = "build var image"
            /\ create_var_build_script(config, binding).raised # "none"
         THEN pipeline' = [pipeline EXCEPT !.pc = "done", !.ret = FALSE]
         ELSE pipeline' = [pipeline EXCEPT !.pc = "calling", !.started = @ + 1]
    /\ UNCHANGED <<config, environ, args, command, result, listing, status,
                   returned, prefix, invocation, runner, files, shell>>

\* The call returned its boolean to the command, which goes on from there
CollectResult ==
    /\ pipeline.pc = "calling"
    /\ runner.pc = "returned"
    /\ LET plan == command_plan(pipeline.name)
           ret == run_in_container(runner.ret)
           then == after_call(plan, pipeline.next, ret)
       IN pipeline' = [pipeline EXCEPT
              !.pc = then.pc, !.next = then.next, !.ret = then.ret,
              !.returned = @ + 1,
              !.issued = Append(@, [command |-> plan[pipeline.next],
                                    event |-> runner.event,
                                    returncode |-> runner.returncode,
                                    ret |-> ret])]
    /\ runner' = Idle
    /\ UNCHANGED <<config, environ, args, command, result, listing, status,
                   returned, prefix, invocation, files, shell>>

\* The container call under way inside run_in_container: no -d, --rm
InCall(step) ==
    /\ pipeline.pc = "calling"
    /\ step
    /\ ~runner'.detach

CommandInit ==
    /\ \E ext \in ExtSections \cup {None} :
           config = Config(Dict(<< <<"image", Str("avocadolinux/sdk")>> >>),
                           ext, None)
    /\ environ = Str("b")
    /\ args = NoArgs
    /\ command = "none"
    /\ result = Result(FALSE, <<>>)
    /\ listing = <<>>
    /\ status = -1
    /\ returned = None
    /\ prefix = Uninitialized("avocado-sdk-target")
    /\ invocation = NotStarted
    /\ runner = Idle
    /\ files = NoFiles
    /\ shell = NoShell
    /\ pipeline = NoPipeline

CommandNext ==
    \/ CommandStart
    \/ IssueCall
    \/ InCall(RunnerCall)
    \/ InCall(RunnerChildExit)
    \/ InCall(RunnerInterrupt)
    \/ CollectResult

CommandSpec == CommandInit /\ [][CommandNext]_vars

----------------------------------------------------------------------------
(* Commands call by call: properties *)

CheckDidNotRun(call) ==
    /\ call.command \in {"dnf list installed", "check sysroot"}
    /\ call.event \in {"KeyboardInterrupt"} \cup SpawnErrors

\* C28: an existence check that was interrupted or failed to execute is not
\* followed by a further container call of the command; the creation step is
\* issued only behind a check that ran and reported absence.
C28_FailedCheckStopsCommand ==
    (pipeline.pc # "idle" /\ Len(pipeline.issued) >= 1
       /\ CheckDidNotRun(pipeline.issued[1])) =>
        pipeline.started = 1

====
